---- MODULE Spec2Model ----
(***************************************************************************)
(* Model of pyannote's correlation-clustering ILP                          *)
(* (src/pyannote/algorithm/mpg/gurobi2.py): the constraint builders of      *)
(* ILPClustering, Finkel2008, the objective term builders, solve and        *)
(* to_annotation.                                                           *)
(*                                                                         *)
(* Numbers: a similarity s in [0, 1] is held as the integer 100*s, alpha    *)
(* as 100*alpha, so 0.9 is 90 and 1 is One.  NaN ("unknown") is a value     *)
(* outside that range.  A binary variable x[I,J] is keyed by <<I, J>>.      *)
(***************************************************************************)
EXTENDS Integers, Sequences, FiniteSets, TLC

VARIABLES
    items,          \* the item list handed to the model (self.items)
    tracks,         \* track list handed to the heterogeneous builders
    identities,     \* identity list handed to the heterogeneous builders
    similarity,     \* what get_similarity(I, J, similarity) returns, per pair
    x,              \* keys of self.x: the pair variables created so far
    constrs,        \* the constraints added to self.model
    calls,          \* names of the constraint builders called so far
    objective,      \* the objective set on self.model
    phase,          \* where the instance is in its life
    status,         \* the backend's termination report (self.model.Status)
    solution,       \* the dict solve returned
    annotation,     \* the annotation to_annotation returned
    nextUnknown,    \* how many Unknown() identities were minted
    request,        \* the (uri, modality) last handed to to_annotation
    expr,           \* the last expression returned by an objective term builder
    lm,             \* a LabelMatrix object, or NoMatrix before its construction
    ret,            \* what the last LabelMatrix operation returned or raised
    written,        \* for each pair, the value last stored for it, if any
    ops,            \* how many operations were applied to the LabelMatrix
    agg,            \* the agglomerative engine
    smx,            \* a stopping criterion mixin
    cmx,            \* a constraint mixin
    mmx,            \* a model mixin and the calls made to it
    backend,        \* the Gurobi model as solve drives it
    fs,             \* the files the command-line tools see and write
    tl              \* a Timeline

vars == <<items, tracks, identities, similarity, x, constrs, calls, objective,
          phase, status, solution, annotation, nextUnknown, request, expr,
          lm, ret, written, ops, agg, smx, cmx, mmx, backend, fs, tl>>

\* the state of the ILP side, of the LabelMatrix, of the agglomerative engine
ilpVars == <<items, tracks, identities, similarity, x, constrs, calls, objective,
             phase, status, solution, annotation, nextUnknown, request, expr>>
matrixVars == <<lm, ret, written, ops>>
aggVars == <<agg>>
restVars == <<smx, cmx, mmx, backend, fs, tl>>

-----------------------------------------------------------------------------
(* Bounds and input domains *)

\* longest item list
MaxItems == 3

\* the value 1.0 of a similarity or of alpha, in hundredths
One == 100

\* np.nan: get_similarity has no information for the pair
NaN == -1

TrackNodes == {"T1", "T2"}
IdentityNodes == {"I1", "I2"}
Nodes == TrackNodes \cup IdentityNodes

\* a third track, of another resource, and a third identity
AllTrackNodes == TrackNodes \cup {"T3"}
AllIdentityNodes == IdentityNodes \cup {"I3"}

\* isinstance(node, IdentityNode), isinstance(node, TrackNode)
IsIdentityNode(node) == node \in AllIdentityNodes
IsTrackNode(node) == node \in AllTrackNodes

\* node.identifier of an IdentityNode
Identifier(node) == node

\* node.uri, node.modality of a TrackNode: T1 and T2 belong to one resource,
\* T3 to another
NodeUri(node) == IF node = "T3" THEN "u2" ELSE "u1"
NodeModality(node) == "speaker"

\* the (uri, modality) requests made to to_annotation
Requests == {<<"u1", "speaker">>, <<"u2", "speaker">>, <<"u2", "head">>}
NoRequest == <<"", "">>

\* Python's None where an array or a returned value is expected
None == [class |-> "None"]

\* no LabelMatrix was constructed, no engine was set up
NoMatrix == [class |-> "none"]
NoAgg == [state |-> "NONE"]
MatrixIdle == lm = NoMatrix /\ ret = None /\ written = <<>> /\ ops = 0
AggIdle == agg = NoAgg

\* no stopping criterion, constraint, model, backend, file system or timeline
Absent == [class |-> "absent"]
RestIdle ==
    /\ smx = Absent /\ cmx = Absent /\ mmx = Absent
    /\ backend = Absent /\ fs = Absent /\ tl = Absent

\* known similarity values besides the scenarios': 0, 0.6, 1
SimValues == {0, 60, One}

\* the values of alpha used with set_objective
Alphas == {50, 90}

\* lists of distinct nodes drawn from S, at most MaxItems long
ListsOver(S) ==
    UNION { { s \in [1..n -> S] : \A i, j \in 1..n : i # j => s[i] # s[j] }
            : n \in 0..MaxItems }

Range(s) == { s[i] : i \in 1..Len(s) }

AllPairs == Nodes \X Nodes

EmptyStore == [p \in AllPairs |-> NaN]

\* a store whose only known entries are those of pair (a, b), in one or both
\* directions, or the self-similarity of a
LinkStore(a, b, vab, vba) ==
    [p \in AllPairs |-> IF p = <<a, b>> THEN vab
                        ELSE IF p = <<b, a>> THEN vba ELSE NaN]

SymStore(A, B, C, sab, sbc, sac) ==
    [p \in AllPairs |->
        IF p \in {<<A, B>>, <<B, A>>} THEN sab
        ELSE IF p \in {<<B, C>>, <<C, B>>} THEN sbc
        ELSE IF p \in {<<A, C>>, <<C, A>>} THEN sac
        ELSE NaN]

\* sim(A,B)=0.9, sim(B,C)=0.85, sim(A,C)=0.1 with A=T1, B=T2, C=I1
ScenarioABC == SymStore("T1", "T2", "I1", 90, 85, 10)

\* similarity(T1,I)=1, similarity(T2,I)=0, T1 and T2 unrelated
ScenarioHard == SymStore("T1", "T2", "I1", NaN, 0, One)

\* sim(A,B)=1, sim(B,C)=0, sim(A,C)=0.9
ScenarioForced == SymStore("T1", "T2", "I1", One, 0, 90)

Scenarios == {ScenarioABC, ScenarioHard, ScenarioForced}

\* the similarity stores tried with an item list: nothing known, one linked
\* pair of its items (each direction known or not, equal or not, but never 0
\* one way and 1 the other), one known self-similarity, and the scenarios when
\* their three items are in the list
SimStores(list) ==
    LET S == Range(list) IN
    {EmptyStore}
    \cup { LinkStore(pq[1], pq[2], v[1], v[2]) :
             pq \in S \X S,
             v \in { w \in SimValues \X (SimValues \cup {NaN}) :
                     {w[1], w[2]} # {0, One} } }
    \cup (IF {"T1", "T2", "I1"} \subseteq S THEN Scenarios ELSE {})

\* get_similarity(I, J, similarity)
get_similarity(I, J, store) == store[<<I, J>>]

isnan(s) == s = NaN

-----------------------------------------------------------------------------
(* Linear constraints.  A constraint is [lhs, sense, rhs]: lhs a sequence   *)
(* of <<coefficient, key>>, sense "=" or "<=".                              *)

Var(I, J) == <<I, J>>

Constr(lhs, sense, rhs) == [lhs |-> lhs, sense |-> sense, rhs |-> rhs]

\* add_pair_variables: one key per ordered pair of items
add_pair_variables(list) == Range(list) \X Range(list)

\* x[I, I] == 1
add_reflexivity_constraints(list) ==
    { Constr(<< <<1, Var(list[i], list[i])>> >>, "=", 1) : i \in 1..Len(list) }

\* index pairs i < j and index triples i < j < k of a list of length n:
\* range(N), range(i+1, N), range(j+1, N)
IndexPairs(n) == { ij \in (1..n) \X (1..n) : ij[1] < ij[2] }
IndexTriples(n) ==
    { ijk \in (1..n) \X (1..n) \X (1..n) : ijk[1] < ijk[2] /\ ijk[2] < ijk[3] }

\* x[I, J] == x[J, I] for i < j
add_symmetry_constraints(list) ==
    { Constr(<< <<1, Var(list[ij[1]], list[ij[2]])>>,
                <<-1, Var(list[ij[2]], list[ij[1]])>> >>, "=", 0)
      : ij \in IndexPairs(Len(list)) }

\* TransitivityOf without its third inequality
TransitivityOf_Mutant(I, J, K) ==
    { Constr(<< <<1, Var(J, K)>>, <<1, Var(I, K)>>, <<-1, Var(I, J)>> >>, "<=", 1),
      Constr(<< <<1, Var(I, J)>>, <<1, Var(I, K)>>, <<-1, Var(J, K)>> >>, "<=", 1) }

\* the three inequalities of one triple I, J, K
TransitivityOf(I, J, K) ==
    { Constr(<< <<1, Var(J, K)>>, <<1, Var(I, K)>>, <<-1, Var(I, J)>> >>, "<=", 1),
      Constr(<< <<1, Var(I, J)>>, <<1, Var(I, K)>>, <<-1, Var(J, K)>> >>, "<=", 1),
      Constr(<< <<1, Var(I, J)>>, <<1, Var(J, K)>>, <<-1, Var(I, K)>> >>, "<=", 1) }

\* for i < j < k
add_transitivity_constraints(list) ==
    UNION { TransitivityOf(list[ijk[1]], list[ijk[2]], list[ijk[3]])
            : ijk \in IndexTriples(Len(list)) }

\* the two inequalities of one identity I and one pair of tracks T, S
AsymmetricOf(I, T, S) ==
    { Constr(<< <<1, Var(T, I)>>, <<1, Var(T, S)>>, <<-1, Var(S, I)>> >>, "<=", 1),
      Constr(<< <<1, Var(S, I)>>, <<1, Var(T, S)>>, <<-1, Var(T, I)>> >>, "<=", 1) }

\* for every identity and every t < s
add_asymmetric_transitivity_constraints(tlist, ilist) ==
    UNION { AsymmetricOf(ilist[i], tlist[ts[1]], tlist[ts[2]])
            : i \in 1..Len(ilist), ts \in IndexPairs(Len(tlist)) }

\* s in [0, 1]
IsHard(s) == s \in {0, One}

\* x[I, J] == s for i < j when get_similarity(I, J) is 0 or 1
add_hard_constraints(list, store) ==
    { Constr(<< <<1, Var(list[ij[1]], list[ij[2]])>> >>, "=",
             get_similarity(list[ij[1]], list[ij[2]], store) \div One)
      : ij \in { q \in IndexPairs(Len(list)) :
                 IsHard(get_similarity(list[q[1]], list[q[2]], store)) } }

\* add_unique_identity_constraints with a bound of 2
add_unique_identity_constraints_Mutant(tlist, ilist) ==
    { Constr([k \in 1..Len(ilist) |-> <<1, Var(tlist[t], ilist[k])>>], "<=", 2)
      : t \in 1..Len(tlist) }

\* sum of x[T, I] over the identities <= 1, for every track
add_unique_identity_constraints(tlist, ilist) ==
    { Constr([k \in 1..Len(ilist) |-> <<1, Var(tlist[t], ilist[k])>>], "<=", 1)
      : t \in 1..Len(tlist) }

\* the constraints Finkel2008.__init__ adds
Finkel2008Constraints(list, store) ==
    add_reflexivity_constraints(list)
    \cup add_hard_constraints(list, store)
    \cup add_symmetry_constraints(list)
    \cup add_transitivity_constraints(list)

-----------------------------------------------------------------------------
(* Assignments and feasibility *)

RECURSIVE LinValue(_, _)
\* value of a left-hand side under assignment a
LinValue(lhs, a) ==
    IF lhs = <<>> THEN 0
    ELSE Head(lhs)[1] * a[Head(lhs)[2]] + LinValue(Tail(lhs), a)

Satisfies(a, c) ==
    IF c.sense = "=" THEN LinValue(c.lhs, a) = c.rhs
    ELSE LinValue(c.lhs, a) <= c.rhs

Feasible(a, cs) == \A c \in cs : Satisfies(a, c)

\* values a single-variable equality forces on key p
Forced(p, cs) ==
    { c.rhs : c \in { d \in cs : d.sense = "=" /\ d.lhs = << <<1, p>> >> } }

\* keys q that an equality x[p] == x[q] ties to a key p that is tied to none
TiedTo(q, cs, keys) ==
    { p \in keys :
        /\ Constr(<< <<1, p>>, <<-1, q>> >>, "=", 0) \in cs
        /\ p # q
        /\ \A r \in keys : Constr(<< <<1, r>>, <<-1, p>> >>, "=", 0) \notin cs }

Rep(q, cs, keys) ==
    IF TiedTo(q, cs, keys) = {} THEN q ELSE CHOOSE p \in TiedTo(q, cs, keys) : TRUE

\* The assignments that satisfy every constraint.  Every 0/1 assignment that
\* satisfies the equalities agrees with its representative on each tied key and
\* with the forced value on each forced key, so only the other keys are
\* enumerated; each candidate is then checked against all constraints.
CandidatesWith(keys, rep, forced) ==
    { [q \in keys |->
          IF forced[rep[q]] # {} THEN CHOOSE v \in forced[rep[q]] : TRUE
          ELSE g[rep[q]]]
      : g \in [{ q \in keys : rep[q] = q /\ forced[q] = {} } -> {0, 1}] }

FeasibleSet(cs, keys) ==
    UNION { { a \in CandidatesWith(keys, rep, forced) : Feasible(a, cs) }
            : rep \in {[q \in keys |-> Rep(q, cs, keys)]},
              forced \in {[q \in keys |-> Forced(q, cs)]} }

-----------------------------------------------------------------------------
(* Objective terms.  A term is [pair, coef, comp]: coef * x[pair], or       *)
(* coef * (1 - x[pair]) when comp.                                          *)

\* the pairs (I, J) in the order of "for I in list for J in others"
Grid(list, others) ==
    [k \in 1..(Len(list) * Len(others)) |->
        <<list[((k - 1) \div Len(others)) + 1], others[((k - 1) % Len(others)) + 1]>>]

\* KnownGrid without the test
KnownGrid_Mutant(list, others, store) == Grid(list, others)

\* the pairs kept by "if not np.isnan(get_similarity(I, J, similarity))"
KnownGrid(list, others, store) ==
    SelectSeq(Grid(list, others),
              LAMBDA p : ~isnan(get_similarity(p[1], p[2], store)))

SimilarityTerm(p, store) ==
    [pair |-> Var(p[1], p[2]), coef |-> get_similarity(p[1], p[2], store),
     comp |-> FALSE]

\* DissimilarityTerm with the similarity as its coefficient
DissimilarityTerm_Mutant(p, store) ==
    [pair |-> Var(p[1], p[2]), coef |-> get_similarity(p[1], p[2], store),
     comp |-> TRUE]

DissimilarityTerm(p, store) ==
    [pair |-> Var(p[1], p[2]), coef |-> One - get_similarity(p[1], p[2], store),
     comp |-> TRUE]

SimilarityTerms(grid, store) ==
    [k \in 1..Len(grid) |-> SimilarityTerm(grid[k], store)]

DissimilarityTerms(grid, store) ==
    [k \in 1..Len(grid) |-> DissimilarityTerm(grid[k], store)]

get_inter_cluster_dissimilarity(list, store) ==
    DissimilarityTerms(KnownGrid(list, list, store), store)

get_intra_cluster_similarity(list, store) ==
    SimilarityTerms(KnownGrid(list, list, store), store)

get_bipartite_similarity(list, others, store) ==
    SimilarityTerms(KnownGrid(list, others, store), store)

get_bipartite_dissimilarity(list, others, store) ==
    DissimilarityTerms(KnownGrid(list, others, store), store)

TermValue(t, a) ==
    IF t.comp THEN t.coef * (1 - a[t.pair]) ELSE t.coef * a[t.pair]

RECURSIVE ExprValue(_, _)
\* grb.quicksum(values) under assignment a
ExprValue(terms, a) ==
    IF terms = <<>> THEN 0
    ELSE TermValue(Head(terms), a) + ExprValue(Tail(terms), a)

\* a model on which set_objective was not called
NoObjective == [alpha |-> 0, intra |-> <<>>, inter |-> <<>>]

\* alpha*intra + (1-alpha)*inter, to maximize
set_objective(alpha, list, store) ==
    [alpha |-> alpha,
     intra |-> get_intra_cluster_similarity(list, store),
     inter |-> get_inter_cluster_dissimilarity(list, store)]

ObjectiveValue(obj, a) ==
    obj.alpha * ExprValue(obj.intra, a) + (One - obj.alpha) * ExprValue(obj.inter, a)

\* the assignments of F of greatest objective value
Best(F, obj) ==
    UNION { { a \in F : \A b \in F : value[a] >= value[b] }
            : value \in {[a \in F |-> ObjectiveValue(obj, a)]} }

\* what an exact backend may return
OptimalSet(cs, keys, obj) == Best(FeasibleSet(cs, keys), obj)

-----------------------------------------------------------------------------
(* Decoding a solution *)

\* the nodes c.add_node puts in the graph
GraphNodes(sol) == { p[1] : p \in DOMAIN sol } \cup { p[2] : p \in DOMAIN sol }

\* HasEdge as in a directed graph
HasEdge_Mutant(sol, a, b) ==
    <<a, b>> \in DOMAIN sol /\ sol[<<a, b>>] # 0

\* c.add_edge(I, J) "if same_cluster", in an undirected graph
HasEdge(sol, a, b) ==
    \/ <<a, b>> \in DOMAIN sol /\ sol[<<a, b>>] # 0
    \/ <<b, a>> \in DOMAIN sol /\ sol[<<b, a>>] # 0

RECURSIVE Reach(_, _)
Reach(sol, S) ==
    LET T == S \cup { n \in GraphNodes(sol) : \E m \in S : HasEdge(sol, m, n) }
    IN IF T = S THEN S ELSE Reach(sol, T)

\* nx.connected_components(c)
connected_components(sol) == { Reach(sol, {n}) : n \in GraphNodes(sol) }

\* the orders in which the components can be visited
Orders(S) ==
    { s \in [1..Cardinality(S) -> S] :
        \A i, j \in 1..Cardinality(S) : i # j => s[i] # s[j] }

\* a label of the annotation: the identifier of an identity, or Unknown()
KnownIdentity(name) == [unknown |-> FALSE, name |-> name, n |-> 0]
Unknown(n) == [unknown |-> TRUE, name |-> "", n |-> n]

\* the identity items of a cluster, and its tracks of the requested resource
INodes(cluster) == { node \in cluster : IsIdentityNode(node) }
TNodes(cluster, req) ==
    { node \in cluster :
        IsTrackNode(node) /\ NodeUri(node) = req[1] /\ NodeModality(node) = req[2] }

\* Ambiguous that tolerates two identities
Ambiguous_Mutant(cluster) == Cardinality(INodes(cluster)) > 2

\* "if len(inodes) > 1: raise ValueError"
Ambiguous(cluster) == Cardinality(INodes(cluster)) > 1

\* the identity of a cluster, unk Unknown() having been minted before
ClusterIdentity(cluster, unk) ==
    IF INodes(cluster) # {}
    THEN KnownIdentity(Identifier(CHOOSE node \in INodes(cluster) : TRUE))
    ELSE Unknown(unk)

RECURSIVE DecodeFrom(_, _, _, _, _)
\* the loop "for cluster in clusters" from the k-th cluster on
DecodeFrom(order, k, ann, unk, req) ==
    IF k > Len(order) THEN [ok |-> TRUE, annotation |-> ann, unknowns |-> unk]
    ELSE IF Ambiguous(order[k])
    THEN [ok |-> FALSE, annotation |-> <<>>, unknowns |-> unk]
    ELSE LET identity == ClusterIdentity(order[k], unk)
             tnodes == TNodes(order[k], req)
         IN DecodeFrom(order, k + 1,
                       [t \in (DOMAIN ann) \cup tnodes |->
                           IF t \in tnodes THEN identity ELSE ann[t]],
                       IF INodes(order[k]) # {} THEN unk ELSE unk + 1,
                       req)

\* to_annotation(solution, modality, uri), the clusters visited in that order
to_annotation(sol, req, order, unk) == DecodeFrom(order, 1, <<>>, unk, req)

-----------------------------------------------------------------------------
(* Actions *)

NoExpr == [call |-> "none", list |-> <<>>, others |-> <<>>, terms |-> <<>>]

\* the inputs are chosen; nothing is built yet
Blank ==
    /\ x = {} /\ constrs = {} /\ calls = {} /\ objective = NoObjective
    /\ phase = "new" /\ status = "NONE" /\ solution = <<>> /\ annotation = <<>>
    /\ nextUnknown = 0 /\ request = NoRequest /\ expr = NoExpr
    /\ MatrixIdle /\ AggIdle /\ RestIdle

\* Finkel2008.__init__(items, similarity, get_similarity)
Finkel2008Init ==
    /\ phase = "new"
    /\ x' = add_pair_variables(items)
    /\ constrs' = Finkel2008Constraints(items, similarity)
    /\ calls' = {"reflexivity", "hard", "symmetry", "transitivity"}
    /\ phase' = "built"
    /\ UNCHANGED <<items, tracks, identities, similarity, objective, status,
                   solution, annotation, nextUnknown, request, expr>>
    /\ UNCHANGED <<matrixVars, aggVars, restVars>>

\* Finkel2008.set_objective(alpha)
SetObjective(alpha) ==
    /\ phase = "built"
    /\ objective' = set_objective(alpha, items, similarity)
    /\ phase' = "objective"
    /\ UNCHANGED <<items, tracks, identities, similarity, x, constrs, calls,
                   status, solution, annotation, nextUnknown, request, expr>>
    /\ UNCHANGED <<matrixVars, aggVars, restVars>>

\* ILPClustering.solve: the backend ends with a proven optimum, or, when
\* there is something to search, stops at the time limit or the gap with the
\* best assignment it found; reading variable.x fails when the backend holds
\* no assignment
Solve ==
    /\ phase \in {"built", "objective"}
    /\ \E F \in {FeasibleSet(constrs, x)} :
       \/ /\ \E a \in Best(F, objective) : solution' = a
          /\ status' = "OPTIMAL"
          /\ phase' = "solved"
       \/ /\ x # {}
          /\ \E a \in F : solution' = a
          /\ status' = "STOPPED"
          /\ phase' = "solved"
       \/ /\ F = {}
          /\ solution' = <<>>
          /\ status' = "INFEASIBLE"
          /\ phase' = "solve_error"
       \/ /\ x # {}
          /\ solution' = <<>>
          /\ status' = "STOPPED"
          /\ phase' = "solve_error"
    /\ UNCHANGED <<items, tracks, identities, similarity, x, constrs, calls,
                   objective, annotation, nextUnknown, request, expr>>
    /\ UNCHANGED <<matrixVars, aggVars, restVars>>

\* ILPClustering.to_annotation(solution, modality, uri)
ToAnnotation(req) ==
    /\ phase = "solved"
    /\ \E r \in { to_annotation(solution, req, order, nextUnknown)
                  : order \in Orders(connected_components(solution)) } :
         /\ annotation' = r.annotation
         /\ nextUnknown' = r.unknowns
         /\ phase' = IF r.ok THEN "decoded" ELSE "decode_error"
    /\ request' = req
    /\ UNCHANGED <<items, tracks, identities, similarity, x, constrs, calls,
                   objective, status, solution, expr>>
    /\ UNCHANGED <<matrixVars, aggVars, restVars>>

\* add_pair_variables(items)
AddPairVariables ==
    /\ phase = "new"
    /\ x' = add_pair_variables(items)
    /\ phase' = "vars"
    /\ UNCHANGED <<items, tracks, identities, similarity, constrs, calls,
                   objective, status, solution, annotation, nextUnknown,
                   request, expr>>
    /\ UNCHANGED <<matrixVars, aggVars, restVars>>

\* the expression a term builder returned for its one or two lists
Returned(call, list, others, terms) ==
    /\ phase \in {"vars", "terms"}
    /\ Range(list) \X Range(others) \subseteq x
    /\ expr' = [call |-> call, list |-> list, others |-> others, terms |-> terms]
    /\ phase' = "terms"
    /\ UNCHANGED <<items, tracks, identities, similarity, x, constrs, calls,
                   objective, status, solution, annotation, nextUnknown,
                   request>>
    /\ UNCHANGED <<matrixVars, aggVars, restVars>>

\* get_intra_cluster_similarity(items, similarity, get_similarity)
GetIntraClusterSimilarity ==
    Returned("intra_cluster_similarity", items, items,
             get_intra_cluster_similarity(items, similarity))

\* get_inter_cluster_dissimilarity(items, similarity, get_similarity)
GetInterClusterDissimilarity ==
    Returned("inter_cluster_dissimilarity", items, items,
             get_inter_cluster_dissimilarity(items, similarity))

\* get_bipartite_similarity(items, otherItems, similarity, get_similarity),
\* the lists being the first k items and the rest
GetBipartiteSimilarity(k) ==
    Returned("bipartite_similarity",
             SubSeq(items, 1, k), SubSeq(items, k + 1, Len(items)),
             get_bipartite_similarity(SubSeq(items, 1, k),
                                      SubSeq(items, k + 1, Len(items)),
                                      similarity))

\* get_bipartite_dissimilarity(items, otherItems, similarity, get_similarity)
GetBipartiteDissimilarity(k) ==
    Returned("bipartite_dissimilarity",
             SubSeq(items, 1, k), SubSeq(items, k + 1, Len(items)),
             get_bipartite_dissimilarity(SubSeq(items, 1, k),
                                         SubSeq(items, k + 1, Len(items)),
                                         similarity))

\* add_unique_identity_constraints(tracks, identities)
AddUniqueIdentityConstraints ==
    /\ phase = "vars"
    /\ "unique_identity" \notin calls
    /\ Range(tracks) \X Range(identities) \subseteq x
    /\ constrs' = constrs \cup add_unique_identity_constraints(tracks, identities)
    /\ calls' = calls \cup {"unique_identity"}
    /\ UNCHANGED <<items, tracks, identities, similarity, x, objective, phase,
                   status, solution, annotation, nextUnknown, request, expr>>
    /\ UNCHANGED <<matrixVars, aggVars, restVars>>

\* add_asymmetric_transitivity_constraints(tracks, identities)
AddAsymmetricTransitivityConstraints ==
    /\ phase = "vars"
    /\ "asymmetric_transitivity" \notin calls
    /\ Range(tracks) \X (Range(tracks) \cup Range(identities)) \subseteq x
    /\ constrs' = constrs
                    \cup add_asymmetric_transitivity_constraints(tracks, identities)
    /\ calls' = calls \cup {"asymmetric_transitivity"}
    /\ UNCHANGED <<items, tracks, identities, similarity, x, objective, phase,
                   status, solution, annotation, nextUnknown, request, expr>>
    /\ UNCHANGED <<matrixVars, aggVars, restVars>>

-----------------------------------------------------------------------------
(* Finkel2008: construction, objective, solve *)

InitFinkel ==
    /\ items \in ListsOver(Nodes)
    /\ similarity \in SimStores(items)
    /\ tracks = <<>> /\ identities = <<>>
    /\ Blank

NextFinkel ==
    \/ Finkel2008Init
    \/ \E alpha \in Alphas : SetObjective(alpha)
    \/ Solve

SpecFinkel == InitFinkel /\ [][NextFinkel]_vars

(* Finkel2008 from construction to the decoded annotation *)

NextFinkelDecoded ==
    \/ Finkel2008Init
    \/ \E alpha \in Alphas : SetObjective(alpha)
    \/ Solve
    \/ \E req \in Requests : ToAnnotation(req)

SpecFinkelDecoded == InitFinkel /\ [][NextFinkelDecoded]_vars

-----------------------------------------------------------------------------
(* Claims about Finkel2008 *)

\* every 0/1 assignment to the keys, without any shortcut
AllAssignments(keys) == [keys -> {0, 1}]

IsEquivalence(a, S) ==
    /\ \A I \in S : a[<<I, I>>] = 1
    /\ \A I, J \in S : a[<<I, J>>] = a[<<J, I>>]
    /\ \A I, J, K \in S :
         a[<<I, J>>] = 1 /\ a[<<J, K>>] = 1 => a[<<I, K>>] = 1

\* C1: every assignment that satisfies the constraints Finkel2008 built is an
\* equivalence relation on the items: reflexive, symmetric, and transitive on
\* every triple in any order, repeated items included.  Lists of up to three
\* items are checked against every 0/1 assignment, one by one.
C1_FeasibleIsEquivalence ==
    phase = "built" =>
        /\ \A a \in FeasibleSet(constrs, x) : IsEquivalence(a, Range(items))
        /\ Len(items) <= 3 =>
             \A a \in AllAssignments(x) :
                 Feasible(a, constrs) => IsEquivalence(a, Range(items))

\* a built model of three items with a feasible assignment that joins the
\* last item to the first and keeps the second apart
C1_Witness ==
    /\ phase = "built"
    /\ Len(items) = 3
    /\ \E a \in FeasibleSet(constrs, x) :
         a[<<items[3], items[1]>>] = 1 /\ a[<<items[2], items[3]>>] = 0

RECURSIVE SetSum(_, _)
\* the sum of w[e] over the elements e of S
SetSum(S, w) ==
    IF S = {} THEN 0
    ELSE LET e == CHOOSE e \in S : TRUE IN w[e] + SetSum(S \ {e}, w)

\* the partitions of a list of n items, each as the labelling that numbers the
\* clusters in the order of their first items
Labelings(n) ==
    { f \in [1..n -> 1..n] :
        \A k \in 1..n :
            \/ \E j \in 1..(k - 1) : f[k] = f[j]
            \/ /\ \A j \in 1..(k - 1) : f[j] < f[k]
               /\ f[k] = 1 \/ \E j \in 1..(k - 1) : f[j] = f[k] - 1 }

IndexOf(list, I) == CHOOSE i \in 1..Len(list) : list[i] = I

\* alpha*sum(x*sim) + (1-alpha)*sum((1-x)*(1-sim)) over the ordered pairs of
\* known similarity, x[I,J] being 1 exactly when same(I, J)
Score(same(_, _), alpha, list, store) ==
    SetSum({ p \in Range(list) \X Range(list) : store[p] # NaN },
           [p \in Range(list) \X Range(list) |->
               IF same(p[1], p[2]) THEN alpha * store[p]
               ELSE (One - alpha) * (One - store[p])])

ScoreOfLabeling(f, alpha, list, store) ==
    Score(LAMBDA I, J : f[IndexOf(list, I)] = f[IndexOf(list, J)],
          alpha, list, store)

\* the partition the solution decodes to: its connected components
SameCluster(sol, I, J) == \E c \in connected_components(sol) : I \in c /\ J \in c

ScoreOfSolution(sol, alpha, list, store) ==
    Score(LAMBDA I, J : SameCluster(sol, I, J), alpha, list, store)

\* the 0/1 assignment of a partition: x[I,J] is 1 exactly when same(I, J)
AssignmentOf(same(_, _), keys) ==
    [p \in keys |-> IF same(p[1], p[2]) THEN 1 ELSE 0]

\* the partition satisfies the hard constraints Finkel2008 added to the model
SatisfiesHardConstraints(same(_, _), list, store) ==
    Feasible(AssignmentOf(same, Range(list) \X Range(list)),
             add_hard_constraints(list, store))

LabelingSatisfiesHardConstraints(f, list, store) ==
    SatisfiesHardConstraints(
        LAMBDA I, J : f[IndexOf(list, I)] = f[IndexOf(list, J)], list, store)

ExactlySolved ==
    phase = "solved" /\ status = "OPTIMAL" /\ objective # NoObjective

\* C2 as stated: after set_objective(alpha) an exact backend returns an
\* assignment whose partition attains the maximum of the objective over all
\* partitions of the items.
C2_BestOfAllPartitions ==
    ExactlySolved =>
        \A f \in Labelings(Len(items)) :
            ScoreOfSolution(solution, objective.alpha, items, similarity)
                >= ScoreOfLabeling(f, objective.alpha, items, similarity)

\* C2 as amended: the returned partition satisfies the hard constraints
\* Finkel2008 added to the model and attains the maximum of the objective over
\* the partitions of the items that satisfy them; for sim(A,B)=0.9,
\* sim(B,C)=0.85, sim(A,C)=0.1 and alpha=0.5 the model has no hard constraint
\* and the returned partition is the best of the 5 partitions of 3 items.
C2_BestOfAllowedPartitions ==
    ExactlySolved =>
        \A best \in {ScoreOfSolution(solution, objective.alpha, items,
                                     similarity)} :
          /\ SatisfiesHardConstraints(
                 LAMBDA I, J : SameCluster(solution, I, J), items, similarity)
          /\ \A f \in Labelings(Len(items)) :
               LabelingSatisfiesHardConstraints(f, items, similarity) =>
                 best >= ScoreOfLabeling(f, objective.alpha, items, similarity)
          /\ (Len(items) = 3 /\ similarity = ScenarioABC
                 /\ objective.alpha = 50) =>
               /\ add_hard_constraints(items, similarity) = {}
               /\ Cardinality(Labelings(3)) = 5
               /\ \A f \in Labelings(3) :
                    best >= ScoreOfLabeling(f, objective.alpha, items,
                                            similarity)

\* sim(A,B)=1, sim(B,C)=0, sim(A,C)=0.9 solved exactly with alpha=0.9: the
\* hard constraints keep A with B and C apart, although the partition that
\* puts the three items together scores higher
C2_Witness ==
    /\ ExactlySolved
    /\ Len(items) = 3
    /\ similarity = ScenarioForced
    /\ objective.alpha = 90
    /\ add_hard_constraints(items, similarity) # {}
    /\ SameCluster(solution, "T1", "T2")
    /\ ~SameCluster(solution, "T2", "I1")
    /\ \E f \in Labelings(3) :
         /\ ~LabelingSatisfiesHardConstraints(f, items, similarity)
         /\ ScoreOfLabeling(f, objective.alpha, items, similarity)
              > ScoreOfSolution(solution, objective.alpha, items, similarity)

\* C3: in a built model, for every ordered pair (I, J) of distinct items,
\* whichever comes first in the list, a similarity get_similarity(I, J) of
\* exactly 0 or 1 is the value of x[I,J] in every feasible assignment, and the
\* hard constraints fix no pair of any other similarity.
C3_HardBothOrders ==
    phase = "built" =>
        \A I, J \in Range(items) :
            I # J =>
              \A s \in {get_similarity(I, J, similarity)} :
                /\ IsHard(s) =>
                     \A a \in FeasibleSet(constrs, x) : a[Var(I, J)] = s \div One
                /\ ~IsHard(s) =>
                     \A v \in {0, 1} :
                         Constr(<< <<1, Var(I, J)>> >>, "=", v)
                             \notin add_hard_constraints(items, similarity)

\* C10: when the backend stops before proving optimality, solve returns a
\* feasible value for every x[I,J], and what it returns is not something it
\* could return after a proven optimum, so that the caller can tell.
C10_StoppedIsReturnedAndTold ==
    status = "STOPPED" =>
        /\ phase = "solved"
        /\ DOMAIN solution = x
        /\ Feasible(solution, constrs)
        /\ solution \notin OptimalSet(constrs, x, objective)

-----------------------------------------------------------------------------
(* Claims about the decoded result of Finkel2008 *)

\* C4: in the decoded result of a Finkel2008 model two items of similarity
\* exactly 1 share a cluster and two items of similarity exactly 0 do not;
\* with similarity(T1,I)=1 and similarity(T2,I)=0, T1 is labelled with the
\* identifier of I and T2 with an unknown identity.
C4_HardPairsInDecodedClusters ==
    phase = "decoded" =>
        /\ \A I, J \in Range(items) :
               I # J =>
                 /\ get_similarity(I, J, similarity) = One =>
                        SameCluster(solution, I, J)
                 /\ get_similarity(I, J, similarity) = 0 =>
                        ~SameCluster(solution, I, J)
        /\ similarity = ScenarioHard /\ DOMAIN annotation # {} =>
               /\ annotation["T1"] = KnownIdentity(Identifier("I1"))
               /\ annotation["T2"].unknown

-----------------------------------------------------------------------------
(* to_annotation on any solution dict *)

\* the nodes a decoded solution may hold, in a fixed order
NodeOrder == <<"T1", "T2", "T3", "I1", "I2">>

\* a solution over at most MaxItems nodes: any 0/1 value for each ordered pair
\* of distinct nodes, the pairs (I, I) all 0 or all 1
InitDecode ==
    /\ \E S \in SUBSET Range(NodeOrder) :
         /\ Cardinality(S) <= MaxItems
         /\ items = SelectSeq(NodeOrder, LAMBDA node : node \in S)
    /\ x = add_pair_variables(items)
    /\ solution \in { sol \in [x -> {0, 1}] :
                        \A I, J \in Range(items) : sol[<<I, I>>] = sol[<<J, J>>] }
    /\ phase = "solved" /\ status = "OPTIMAL"
    /\ similarity = EmptyStore /\ tracks = <<>> /\ identities = <<>>
    /\ constrs = {} /\ calls = {} /\ objective = NoObjective
    /\ annotation = <<>> /\ nextUnknown = 0 /\ request = NoRequest
    /\ expr = NoExpr
    /\ MatrixIdle /\ AggIdle /\ RestIdle

NextDecode == \E req \in Requests : ToAnnotation(req)

SpecDecode == InitDecode /\ [][NextDecode]_vars

(* Claims about to_annotation *)

\* pairs of nodes equal or joined by a 1 in either direction
Adjacent(sol) ==
    { p \in GraphNodes(sol) \X GraphNodes(sol) :
        \/ p[1] = p[2]
        \/ sol[p] = 1
        \/ sol[<<p[2], p[1]>>] = 1 }

Compose(R) ==
    { p \in { <<q[1], r[2]>> : q \in R, r \in R } :
        \E m \in { q[2] : q \in R } : <<p[1], m>> \in R /\ <<m, p[2]>> \in R }

RECURSIVE Closure(_)
\* the reflexive transitive closure of a reflexive relation
Closure(R) == IF Compose(R) = R THEN R ELSE Closure(Compose(R))

\* pairs of nodes joined by a chain of 1s
Joined(sol) == Closure(Adjacent(sol))

\* the tracks the request asks for
Requested(sol, req) ==
    { node \in GraphNodes(sol) :
        IsTrackNode(node) /\ NodeUri(node) = req[1] /\ NodeModality(node) = req[2] }

\* C5: when two identity items of the solution are joined by a chain of 1s,
\* to_annotation ends in the error and yields no annotation, for every request
\* and every order in which the components are visited.
C5_TwoIdentitiesFail ==
    phase \in {"decoded", "decode_error"} =>
        \A R \in {Joined(solution)} :
            (\E p \in R : p[1] # p[2] /\ IsIdentityNode(p[1]) /\ IsIdentityNode(p[2]))
                => phase = "decode_error" /\ annotation = <<>>

\* to_annotation failed on a solution that joins two identities through a
\* track and holds another track on its own, for a request that matches tracks
C5_Witness ==
    /\ phase = "decode_error"
    /\ request = <<"u1", "speaker">>
    /\ Range(items) = {"T1", "T2", "I1", "I2"} \/ Range(items) = {"T1", "I1", "I2"}
    /\ solution[<<"I1", "T1">>] = 1 /\ solution[<<"T1", "I2">>] = 1
    /\ solution[<<"I1", "I2">>] = 0 /\ solution[<<"I2", "I1">>] = 0

\* C6: when no two identities are joined, to_annotation labels exactly the
\* tracks of the requested uri and modality; two of them get the same label
\* exactly when a chain of 1s joins them; the label is the identifier of the
\* identity joined to the track when there is one, and otherwise an unknown
\* identity minted during the call.
C6_ComponentsLabelled ==
    phase \in {"decoded", "decode_error"} =>
        \A R \in {Joined(solution)} :
            IF \E p \in R : p[1] # p[2] /\ IsIdentityNode(p[1]) /\ IsIdentityNode(p[2])
            THEN phase = "decode_error"
            ELSE /\ phase = "decoded"
                 /\ DOMAIN annotation = Requested(solution, request)
                 /\ \A T, S \in DOMAIN annotation :
                        annotation[T] = annotation[S] <=> <<T, S>> \in R
                 /\ \A T \in DOMAIN annotation :
                        \A I \in GraphNodes(solution) :
                            IsIdentityNode(I) /\ <<T, I>> \in R =>
                                annotation[T] = KnownIdentity(Identifier(I))
                 /\ \A T \in DOMAIN annotation :
                        (\A I \in GraphNodes(solution) :
                             IsIdentityNode(I) => <<T, I>> \notin R)
                        => /\ annotation[T].unknown
                           /\ annotation[T].n \in 0..(nextUnknown - 1)

\* a decoded solution in which T1 reaches I1 only through T2 and against the
\* direction of a key, and T3 is of another resource
C6_Witness ==
    /\ phase = "decoded"
    /\ request = <<"u1", "speaker">>
    /\ Range(items) = {"T1", "T2", "T3", "I1"} \/ Range(items) = {"T1", "T2", "I1"}
    /\ solution[<<"T2", "T1">>] = 1 /\ solution[<<"T1", "T2">>] = 0
    /\ solution[<<"I1", "T2">>] = 1 /\ solution[<<"T2", "I1">>] = 0
    /\ solution[<<"T1", "I1">>] = 0 /\ solution[<<"I1", "T1">>] = 0
    /\ annotation["T1"] = KnownIdentity(Identifier("I1"))
    /\ annotation["T2"] = KnownIdentity(Identifier("I1"))

-----------------------------------------------------------------------------
(* The objective term builders *)

\* every pair known, the similarity depending on the pair
FullStore ==
    [p \in AllPairs |-> IF p[1] = p[2] THEN One
                        ELSE IF IsTrackNode(p[1]) THEN 60 ELSE 10]

InitTerms ==
    /\ items \in ListsOver(Nodes)
    /\ similarity \in SimStores(items) \cup {FullStore}
    /\ tracks = <<>> /\ identities = <<>>
    /\ Blank

NextTerms ==
    \/ AddPairVariables
    \/ GetIntraClusterSimilarity
    \/ GetInterClusterDissimilarity
    \/ \E k \in 0..MaxItems : k <= Len(items) /\ GetBipartiteSimilarity(k)
    \/ \E k \in 0..MaxItems : k <= Len(items) /\ GetBipartiteDissimilarity(k)

SpecTerms == InitTerms /\ [][NextTerms]_vars

\* assignment a with the value of key q changed
Flip(a, q) == [a EXCEPT ![q] = 1 - a[q]]

\* the pairs of the two lists whose similarity is unknown
UnknownPairs(list, others, store) ==
    { p \in Range(list) \X Range(others) : store[p] = NaN }

\* C7: the expression a term builder returns has one term for every pair
\* (I, J) of its lists with a known similarity and none for any other pair, so
\* that changing x[I,J] of an unknown pair leaves its value as it was.
C7_UnknownPairsContributeNothing ==
    phase = "terms" =>
        /\ { expr.terms[k].pair : k \in 1..Len(expr.terms) }
               = (Range(expr.list) \X Range(expr.others))
                    \ UnknownPairs(expr.list, expr.others, similarity)
        /\ Len(expr.terms)
               = Cardinality({ expr.terms[k].pair : k \in 1..Len(expr.terms) })
        /\ \A a \in {[q \in x |-> 0], [q \in x |-> 1]} :
               \A v \in {ExprValue(expr.terms, a)} :
                   \A q \in UnknownPairs(expr.list, expr.others, similarity) :
                       ExprValue(expr.terms, Flip(a, q)) = v

\* a bipartite dissimilarity over one item against two, one pair known and
\* below 1, the other unknown
C7_Witness ==
    /\ phase = "terms"
    /\ expr.call = "bipartite_dissimilarity"
    /\ Len(expr.list) = 1 /\ Len(expr.others) = 2
    /\ similarity[<<expr.list[1], expr.others[1]>>] = 60
    /\ similarity[<<expr.list[1], expr.others[2]>>] = NaN
    /\ Len(expr.terms) = 1

-----------------------------------------------------------------------------
(* The constraint builders for tracks and identities *)

\* lists of tracks and of identities, at most MaxItems items together
InitHetero ==
    /\ tracks \in ListsOver(AllTrackNodes)
    /\ identities \in ListsOver(AllIdentityNodes)
    /\ Len(tracks) + Len(identities) <= MaxItems
    /\ items = tracks \o identities
    /\ similarity = EmptyStore
    /\ Blank

NextHetero ==
    \/ AddPairVariables
    \/ AddUniqueIdentityConstraints
    \/ AddAsymmetricTransitivityConstraints

SpecHetero == InitHetero /\ [][NextHetero]_vars

\* the variables the two builders constrain: x[T,I] and x[T,S] for distinct
\* tracks; the other variables occur in no constraint and take any value
HeteroKeys ==
    (Range(tracks) \X Range(identities))
    \cup { p \in Range(tracks) \X Range(tracks) : p[1] # p[2] }

\* the identities a track is assigned to
IdentitiesOf(a, T) == { I \in Range(identities) : a[<<T, I>>] = 1 }

\* C8: once add_unique_identity_constraints was called, every feasible
\* assignment gives each track at most one identity; called alone it excludes
\* no other assignment, and none at all when there is no identity.
C8_AtMostOneIdentity ==
    "unique_identity" \in calls =>
        /\ \A a \in FeasibleSet(constrs, HeteroKeys) :
               \A T \in Range(tracks) : Cardinality(IdentitiesOf(a, T)) <= 1
        /\ calls = {"unique_identity"} =>
               \A a \in AllAssignments(HeteroKeys) :
                   (\A T \in Range(tracks) : Cardinality(IdentitiesOf(a, T)) <= 1)
                       => Feasible(a, constrs)
        /\ calls = {"unique_identity"} /\ identities = <<>> =>
               FeasibleSet(constrs, HeteroKeys) = AllAssignments(HeteroKeys)

\* one track, two identities, and a feasible assignment to the second
C8_Witness ==
    /\ "unique_identity" \in calls
    /\ Len(tracks) = 1 /\ Len(identities) = 2
    /\ \E a \in FeasibleSet(constrs, HeteroKeys) :
           IdentitiesOf(a, tracks[1]) = {identities[2]}

\* C9: once add_asymmetric_transitivity_constraints was called, for every
\* identity I and distinct tracks T, S in either order, a feasible assignment
\* with x[T,I] = 1 and x[T,S] = 1 has x[S,I] = 1, and some feasible
\* assignment has x[T,I] = 1, x[S,I] = 1 and x[T,S] = 0.
C9_EitherOrder ==
    "asymmetric_transitivity" \in calls =>
        \A F \in {FeasibleSet(constrs, HeteroKeys)} :
            \A I \in Range(identities) :
                \A T, S \in Range(tracks) :
                    T # S =>
                      /\ \A a \in F :
                             a[<<T, I>>] = 1 /\ a[<<T, S>>] = 1 => a[<<S, I>>] = 1
                      /\ \E a \in F :
                             a[<<T, I>>] = 1 /\ a[<<S, I>>] = 1 /\ a[<<T, S>>] = 0

-----------------------------------------------------------------------------
(* LabelMatrix (src/pyannote/base/matrix.py).  A NumPy array is              *)
(* [ni, nj, val], val giving the value at each <<i, j>> counted from 0; a    *)
(* list of labels is a sequence, the label at index k being its (k+1)-th     *)
(* element; a raised exception is an Error record.                           *)

Error(type) == [class |-> "Error", type |-> type]

\* None where a list of labels, a threshold or an axis is expected
NoList == <<"None">>
NoThreshold == -1000
NoAxis == -1
IsError(r) == r.class = "Error"

Cells(ni, nj) == (0..(ni - 1)) \X (0..(nj - 1))

\* v * np.ones((ni, nj))
ones(ni, nj, v) == [ni |-> ni, nj |-> nj, val |-> [c \in Cells(ni, nj) |-> v]]

\* {label: i for i, label in enumerate(labels)}: the last index wins
Enumerate(labels) ==
    [l \in Range(labels) |->
        (CHOOSE k \in 1..Len(labels) :
            labels[k] = l /\ \A h \in 1..Len(labels) : labels[h] = l => h <= k) - 1]

\* LabelMatrix.__init__(ilabels, jlabels, Mij, default); ilabels and jlabels
\* are NoList or a list, Mij is None or a 2-D array
LabelMatrix(ilabels, jlabels, Mij, default) ==
    LET il == IF ilabels = NoList THEN <<>> ELSE ilabels
        jl == IF jlabels = NoList THEN <<>> ELSE jlabels
        ni == Len(il)
        nj == Len(jl)
        obj(M) == [class |-> "LabelMatrix", ilabels |-> il, jlabels |-> jl,
                   label2i |-> Enumerate(il), label2j |-> Enumerate(jl),
                   default |-> default, Mij |-> M]
    IN IF Mij = None
       THEN IF ni # 0 \/ nj # 0 THEN obj(ones(ni, nj, default)) ELSE obj(None)
       ELSE IF <<ni, nj>> # <<Mij.ni, Mij.nj>> THEN Error("ValueError")
       ELSE obj(Mij)

\* the shape property
shape(m) == IF m.Mij = None THEN <<0, 0>> ELSE <<m.Mij.ni, m.Mij.nj>>

\* LabelMatrix.__getitem__ for a pair of labels
getitem(m, ilabel, jlabel) ==
    IF ilabel \in DOMAIN m.label2i /\ jlabel \in DOMAIN m.label2j
    THEN m.Mij.val[<<m.label2i[ilabel], m.label2j[jlabel]>>]
    ELSE m.default

\* d with d[key] = value
WithKey(d, key, value) ==
    [k \in DOMAIN d \cup {key} |-> IF k = key THEN value ELSE d[k]]

\* np.append(Mij, default*np.ones((1, m)), axis=0)
AppendRow(M, v) ==
    [ni |-> M.ni + 1, nj |-> M.nj,
     val |-> [c \in Cells(M.ni + 1, M.nj) |-> IF c[1] = M.ni THEN v ELSE M.val[c]]]

\* np.append(Mij, default*np.ones((n, 1)), axis=1)
AppendColumn(M, v) ==
    [ni |-> M.ni, nj |-> M.nj + 1,
     val |-> [c \in Cells(M.ni, M.nj + 1) |-> IF c[2] = M.nj THEN v ELSE M.val[c]]]

\* LabelMatrix.__add_ilabel
add_ilabel(m, ilabel) ==
    [m EXCEPT !.ilabels = Append(m.ilabels, ilabel),
              !.label2i = WithKey(m.label2i, ilabel, shape(m)[1]),
              !.Mij = AppendRow(m.Mij, m.default)]

add_jlabel_Mutant(m, jlabel) ==
    [m EXCEPT !.jlabels = Append(m.jlabels, jlabel),
              !.label2j = WithKey(m.label2j, jlabel, shape(m)[2]),
              !.Mij = AppendColumn(m.Mij, 0)]

\* LabelMatrix.__add_jlabel
add_jlabel(m, jlabel) ==
    [m EXCEPT !.jlabels = Append(m.jlabels, jlabel),
              !.label2j = WithKey(m.label2j, jlabel, shape(m)[2]),
              !.Mij = AppendColumn(m.Mij, m.default)]

\* LabelMatrix.__setitem__ for a pair of labels
setitem(m, ilabel, jlabel, value) ==
    IF m.Mij = None
    THEN [m EXCEPT !.ilabels = Append(m.ilabels, ilabel),
                   !.jlabels = Append(m.jlabels, jlabel),
                   !.label2i = WithKey(m.label2i, ilabel, 0),
                   !.label2j = WithKey(m.label2j, jlabel, 0),
                   !.Mij = ones(1, 1, value)]
    ELSE LET m1 == IF ilabel \notin DOMAIN m.label2i
                   THEN add_ilabel(m, ilabel) ELSE m
             m2 == IF jlabel \notin DOMAIN m1.label2j
                   THEN add_jlabel(m1, jlabel) ELSE m1
         IN [m2 EXCEPT !.Mij.val[<<m2.label2i[ilabel], m2.label2j[jlabel]>>]
                           = value]

\* the setter of property M
set_M(m, M) ==
    IF <<M.ni, M.nj>> # shape(m) THEN Error("ValueError")
    ELSE [m EXCEPT !.Mij = M]

\* LabelMatrix.__delitem__
delitem(m, key) == Error("NotImplementedError")

\* other.iter_pairs(): each row label with each column label, in list order
iter_pairs(m) ==
    [k \in 1..(Len(m.ilabels) * Len(m.jlabels)) |->
        <<m.ilabels[((k - 1) \div Len(m.jlabels)) + 1],
          m.jlabels[((k - 1) % Len(m.jlabels)) + 1]>>]

\* for ilabel, jlabel, value in other.iter_pairs(data=True):
\*     self[ilabel, jlabel] += value
RECURSIVE AddPairs(_, _, _, _)
AddPairs(m, other, pairs, k) ==
    IF k > Len(pairs) THEN m
    ELSE LET ilabel == pairs[k][1]
             jlabel == pairs[k][2]
             value == getitem(other, ilabel, jlabel)
         IN AddPairs(setitem(m, ilabel, jlabel, getitem(m, ilabel, jlabel) + value),
                     other, pairs, k + 1)

\* LabelMatrix.__iadd__(other): a differing default is only warned about
matrix_iadd(m, other) == AddPairs(m, other, iter_pairs(other), 1)

\* Mij.T
Transposed(M) ==
    [ni |-> M.nj, nj |-> M.ni,
     val |-> [c \in Cells(M.nj, M.ni) |-> M.val[<<c[2], c[1]>>]]]

\* the T property: None has no attribute T
get_T(m) ==
    IF m.Mij = None THEN Error("AttributeError")
    ELSE LabelMatrix(m.jlabels, m.ilabels, Transposed(m.Mij), 0)

\* -np.copy(self.M)
Negated(M) == [M EXCEPT !.val = [c \in DOMAIN M.val |-> 0 - M.val[c]]]

\* LabelMatrix.__neg__: None cannot be negated
neg(m) ==
    IF m.Mij = None THEN Error("TypeError")
    ELSE LabelMatrix(m.ilabels, m.jlabels, Negated(m.Mij), 0 - m.default)

\* np.max of a non-empty set of values
Max(S) == CHOOSE v \in S : \A w \in S : w <= v

\* self.M[i, :]
RowValues(M, i) == { M.val[<<i, j>>] : j \in 0..(M.nj - 1) }

Exceeds_Mutant(v, threshold) == threshold = NoThreshold \/ v >= threshold

\* "threshold is None or m > threshold"
Exceeds(v, threshold) == threshold = NoThreshold \/ v > threshold

\* the labels self.__jlabels[j] for j in np.argwhere(M == m), row i
RowArgmax(m, i) ==
    { m.jlabels[j + 1] :
        j \in { k \in 0..(m.Mij.nj - 1) :
                  m.Mij.val[<<i, k>>] = Max(RowValues(m.Mij, i)) } }

\* the sets pairs[ilabel] may end as, for the row of index i
RowChoices(m, i, threshold, ties) ==
    IF Exceeds(Max(RowValues(m.Mij, i)), threshold)
    THEN IF ties = "any" /\ Cardinality(RowArgmax(m, i)) > 1
         THEN { {l} : l \in RowArgmax(m, i) }
         ELSE { RowArgmax(m, i) }
    ELSE { {} }

Dict(d) == [class |-> "dict", val |-> d]
SetOf(S) == [class |-> "set", val |-> S]

\* argmax(axis=0): the dictionaries it may return, or the error of np.max on
\* a row without columns
argmax0(m, threshold, ties) ==
    IF m.ilabels = <<>> THEN { Dict(<<>>) }
    ELSE IF m.Mij.nj = 0 THEN { Error("ValueError") }
    ELSE { Dict(d) :
             d \in { f \in [Range(m.ilabels) -> SUBSET Range(m.jlabels)] :
                       \A l \in Range(m.ilabels) :
                           f[l] \in RowChoices(m, m.label2i[l], threshold, ties) } }

\* argmax(axis=None): the set of pairs attaining the maximum; on a matrix
\* without array np.max(None) is None, and only a threshold avoids the error
argmaxAll(m, threshold) ==
    IF m.Mij = None
    THEN IF threshold = NoThreshold THEN { Error("ValueError") } ELSE { SetOf({}) }
    ELSE IF DOMAIN m.Mij.val = {} THEN { Error("ValueError") }
    ELSE LET top == Max({ m.Mij.val[c] : c \in DOMAIN m.Mij.val })
         IN IF Exceeds(top, threshold)
            THEN { SetOf({ <<m.ilabels[c[1] + 1], m.jlabels[c[2] + 1]>> :
                             c \in { e \in DOMAIN m.Mij.val : m.Mij.val[e] = top } }) }
            ELSE { SetOf({}) }

\* LabelMatrix.argmax(axis, threshold, ties): everything it may return or
\* raise; axis=1 goes through self.T and the default ties
argmax(m, axis, threshold, ties) ==
    IF axis = 0 THEN argmax0(m, threshold, ties)
    ELSE IF axis = 1
    THEN IF IsError(get_T(m)) THEN { get_T(m) }
         ELSE argmax0(get_T(m), threshold, "all")
    ELSE argmaxAll(m, threshold)

\* LabelMatrix.argmin(axis, threshold, ties):
\* (-self).argmax(axis=axis, threshold=-threshold)
argmin(m, axis, threshold, ties) ==
    IF IsError(neg(m)) THEN { neg(m) }
    ELSE IF threshold = NoThreshold THEN { Error("TypeError") }
    ELSE argmax(neg(m), axis, 0 - threshold, "all")

-----------------------------------------------------------------------------
(* A LabelMatrix under construction, set operations and assignments to M *)

\* most set operations and assignments applied to one matrix
MaxOps == 3

\* the labels used with the matrix, and one that is never stored
MatrixLabels == {"a", "b"}
UnseenLabel == "z"

\* the values stored with set operations, and the default values
SetValues == {1, 2}
Defaults == {0, 1}

\* the label lists handed to the constructor: None, or a list of at most two
\* labels, the same label twice included
LabelLists ==
    {NoList} \cup UNION { [1..n -> MatrixLabels] : n \in 0..2 }

\* an array of the shape with every value v, or with values that differ from
\* cell to cell
Filled(ni, nj, v) == ones(ni, nj, v)
Graded(ni, nj) ==
    [ni |-> ni, nj |-> nj, val |-> [c \in Cells(ni, nj) |-> (2 * c[1] + c[2]) % 3]]

\* the arrays handed to the constructor and to the setter of M
GivenArrays ==
    UNION { { Filled(sh[1], sh[2], 2), Graded(sh[1], sh[2]) }
            : sh \in (0..2) \X (0..2) }

\* the value of each pair of labels of a matrix, as the pairs last stored
Stored(m) ==
    [p \in Range(m.ilabels) \X Range(m.jlabels) |-> getitem(m, p[1], p[2])]

\* LabelMatrix(ilabels, jlabels, Mij, default)
Construct(ilabels, jlabels, Mij, default) ==
    /\ lm = NoMatrix /\ ret = None
    /\ \E r \in {LabelMatrix(ilabels, jlabels, Mij, default)} :
         IF IsError(r)
         THEN lm' = lm /\ ret' = r /\ written' = written
         ELSE /\ lm' = r
              /\ ret' = None
              /\ written' = IF Mij = None THEN <<>> ELSE Stored(r)
    /\ UNCHANGED <<ops, ilpVars, aggVars, restVars>>

\* matrix[ilabel, jlabel] = value
SetItem(ilabel, jlabel, value) ==
    /\ lm # NoMatrix
    /\ ops < MaxOps
    /\ lm' = setitem(lm, ilabel, jlabel, value)
    /\ written' = WithKey(written, <<ilabel, jlabel>>, value)
    /\ ret' = None
    /\ ops' = ops + 1
    /\ UNCHANGED <<ilpVars, aggVars, restVars>>

\* matrix.M = M
SetM(M) ==
    /\ lm # NoMatrix
    /\ ops < MaxOps
    /\ \E r \in {set_M(lm, M)} :
         IF IsError(r)
         THEN lm' = lm /\ ret' = r /\ written' = written
         ELSE lm' = r /\ ret' = None /\ written' = Stored(r)
    /\ ops' = ops + 1
    /\ UNCHANGED <<ilpVars, aggVars, restVars>>

\* the matrices added to the matrix: an empty one, one with rows and no
\* column, and ones with distinct labels and values that differ from cell to
\* cell
AddedMatrices ==
    { LabelMatrix(NoList, NoList, None, 0),
      LabelMatrix(<<"a", "b">>, NoList, None, 1),
      LabelMatrix(<<"b">>, <<"a">>, Filled(1, 1, 2), 0) }
    \cup { LabelMatrix(<<"a", "b">>, <<"a", "b">>, Graded(2, 2), d) : d \in Defaults }

\* matrix += other: each pair of other is read and stored once
IAdd(other) ==
    /\ lm # NoMatrix
    /\ ops < MaxOps
    /\ lm' = matrix_iadd(lm, other)
    /\ written' =
          [p \in DOMAIN written \cup (Range(other.ilabels) \X Range(other.jlabels)) |->
              IF p \in Range(other.ilabels) \X Range(other.jlabels)
              THEN getitem(lm, p[1], p[2]) + getitem(other, p[1], p[2])
              ELSE written[p]]
    /\ ret' = None
    /\ ops' = ops + 1
    /\ UNCHANGED <<ilpVars, aggVars, restVars>>

\* del matrix[label, :] and del matrix[:, label]
DelItem(key) ==
    /\ lm # NoMatrix
    /\ ops < MaxOps
    /\ ret' = delitem(lm, key)
    /\ ops' = ops + 1
    /\ UNCHANGED <<lm, written, ilpVars, aggVars, restVars>>

IlpIdle ==
    /\ items = <<>> /\ tracks = <<>> /\ identities = <<>>
    /\ similarity = EmptyStore
    /\ x = {} /\ constrs = {} /\ calls = {} /\ objective = NoObjective
    /\ phase = "new" /\ status = "NONE" /\ solution = <<>> /\ annotation = <<>>
    /\ nextUnknown = 0 /\ request = NoRequest /\ expr = NoExpr

InitMatrix == IlpIdle /\ MatrixIdle /\ AggIdle /\ RestIdle

NextMatrix ==
    \/ \E il \in LabelLists, jl \in LabelLists, M \in GivenArrays \cup {None},
          d \in Defaults : Construct(il, jl, M, d)
    \/ \E i \in MatrixLabels, j \in MatrixLabels, v \in SetValues : SetItem(i, j, v)
    \/ \E M \in GivenArrays : SetM(M)
    \/ \E other \in AddedMatrices : IAdd(other)
    \/ \E l \in MatrixLabels, axis \in {0, 1} : DelItem(<<l, axis>>)

SpecMatrix == InitMatrix /\ [][NextMatrix]_vars

\* C14: after any sequence of set operations on a matrix, built empty or
\* from label lists, reading a pair of labels gives the value most recently
\* stored for the pair, and the default value for a pair never stored: a pair
\* whose labels other set operations introduced, a pair with a label the
\* matrix never saw, and the pair of the first set operation on an empty
\* matrix included.
C14_GetReturnsLastSet ==
    lm # NoMatrix =>
        \A i \in MatrixLabels \cup {UnseenLabel}, j \in MatrixLabels \cup {UnseenLabel} :
            getitem(lm, i, j) = IF <<i, j>> \in DOMAIN written
                                THEN written[<<i, j>>]
                                ELSE lm.default

\* an empty matrix of default 1 to which (a, a) and then (b, b) were set:
\* the pair (a, b), of labels two other set operations introduced, reads 1
C14_Witness ==
    /\ lm # NoMatrix
    /\ lm.default = 1
    /\ lm.ilabels = <<"a", "b">> /\ lm.jlabels = <<"a", "b">>
    /\ DOMAIN written = {<<"a", "a">>, <<"b", "b">>}
    /\ written[<<"a", "a">>] = 2
    /\ getitem(lm, "a", "a") = 2
    /\ getitem(lm, "a", "b") = 1
    /\ getitem(lm, "a", UnseenLabel) = 1

\* every label of the list occurs in it once
Unique(labels) ==
    \A h \in 1..Len(labels), k \in 1..Len(labels) : labels[h] = labels[k] => h = k

\* the map sends each label of the list to its position, counted from 0
MapsToPosition(label2, labels) ==
    /\ DOMAIN label2 = Range(labels)
    /\ \A k \in 1..Len(labels) : label2[labels[k]] = k - 1

\* C15: in every state reached by construction, set operations and
\* assignments to M, the value array has as many rows as the matrix has row
\* labels and as many columns as it has column labels, every label occurs
\* once in its axis, and the two maps send each label to its position;
\* constructing a matrix, or assigning M, with an array of another shape is
\* rejected.
C15_ShapeAndLabelsConsistent ==
    /\ lm # NoMatrix =>
        /\ shape(lm) = <<Len(lm.ilabels), Len(lm.jlabels)>>
        /\ Unique(lm.ilabels) /\ Unique(lm.jlabels)
        /\ MapsToPosition(lm.label2i, lm.ilabels)
        /\ MapsToPosition(lm.label2j, lm.jlabels)
        /\ \A M \in GivenArrays :
               <<M.ni, M.nj>> # <<Len(lm.ilabels), Len(lm.jlabels)>>
                   => IsError(set_M(lm, M))
    /\ lm = NoMatrix /\ ret = None =>
        \A il \in LabelLists, jl \in LabelLists, M \in GivenArrays :
            <<M.ni, M.nj>> # <<IF il = NoList THEN 0 ELSE Len(il),
                               IF jl = NoList THEN 0 ELSE Len(jl)>>
                => IsError(LabelMatrix(il, jl, M, 0))

\* the matrix reads as before on every pair of the labels it has left
SameOnRemaining(before, after) ==
    \A i \in Range(after.ilabels), j \in Range(after.jlabels) :
        getitem(after, i, j) = getitem(before, i, j)

\* C20: deleting a row (del matrix[label, :]) or a column
\* (del matrix[:, label]) of a label the matrix has removes the label from
\* its axis and leaves label lists, maps and value array consistent: the
\* array has the shape of the label lists, the maps send each label to its
\* position, and every remaining pair reads as before.
C20_DeleteRemovesLabel ==
    [][\A l \in MatrixLabels :
          /\ DelItem(<<l, 0>>) /\ l \in Range(lm.ilabels) =>
                /\ l \notin Range(lm'.ilabels)
                /\ MapsToPosition(lm'.label2i, lm'.ilabels)
                /\ shape(lm') = <<Len(lm'.ilabels), Len(lm'.jlabels)>>
                /\ SameOnRemaining(lm, lm')
          /\ DelItem(<<l, 1>>) /\ l \in Range(lm.jlabels) =>
                /\ l \notin Range(lm'.jlabels)
                /\ MapsToPosition(lm'.label2j, lm'.jlabels)
                /\ shape(lm') = <<Len(lm'.ilabels), Len(lm'.jlabels)>>
                /\ SameOnRemaining(lm, lm')]_vars

-----------------------------------------------------------------------------
(* Queries on a LabelMatrix: the T property, argmax and argmin *)

\* largest value held by a queried matrix
MaxValue == 2

Values == 0..MaxValue

\* row labels and column labels of a queried matrix, each label once
RowLists == {<<>>, <<"a">>, <<"a", "b">>, <<"b", "a">>}
ColumnLists == {<<>>, <<"c">>, <<"c", "d">>, <<"d", "c">>}
QueryLabels == {"a", "b", "c", "d", UnseenLabel}

\* every array of the shape with values in Values
Arrays(ni, nj) ==
    { [ni |-> ni, nj |-> nj, val |-> f] : f \in [Cells(ni, nj) -> Values] }

\* the thresholds of argmax and argmin
Thresholds == {NoThreshold} \cup ((0 - MaxValue)..MaxValue)

\* the matrices queried: built from label lists alone, or with an array
QueriedMatrices ==
    UNION { { LabelMatrix(il, jl, M, d) :
                M \in {None} \cup Arrays(Len(il), Len(jl)) }
            : il \in RowLists, jl \in ColumnLists, d \in Defaults }

\* what a query returned or raised
Result(call, axis, threshold, ties, value) ==
    [class |-> "result", call |-> call, axis |-> axis, threshold |-> threshold,
     ties |-> ties, value |-> value]

\* matrix.T.T
TransposeTwice ==
    /\ lm # NoMatrix /\ ret = None
    /\ \E t \in {get_T(lm)} :
         ret' = Result("T.T", NoAxis, NoThreshold, "all",
                       IF IsError(t) THEN t ELSE get_T(t))
    /\ UNCHANGED <<lm, written, ops, ilpVars, aggVars, restVars>>

\* matrix.argmax(axis, threshold, ties)
ArgMax(axis, threshold, ties) ==
    /\ lm # NoMatrix /\ ret = None
    /\ \E r \in argmax(lm, axis, threshold, ties) :
         ret' = Result("argmax", axis, threshold, ties, r)
    /\ UNCHANGED <<lm, written, ops, ilpVars, aggVars, restVars>>

\* matrix.argmin(axis, threshold, ties)
ArgMin(axis, threshold, ties) ==
    /\ lm # NoMatrix /\ ret = None
    /\ \E r \in argmin(lm, axis, threshold, ties) :
         ret' = Result("argmin", axis, threshold, ties, r)
    /\ UNCHANGED <<lm, written, ops, ilpVars, aggVars, restVars>>

InitQuery ==
    /\ IlpIdle /\ AggIdle /\ RestIdle
    /\ lm \in QueriedMatrices
    /\ ret = None /\ written = <<>> /\ ops = 0

NextQuery ==
    \/ TransposeTwice
    \/ \E axis \in {0, 1, NoAxis}, t \in Thresholds, ties \in {"all", "any"} :
          ArgMax(axis, t, ties)
    \/ \E axis \in {0, 1, NoAxis}, t \in Thresholds, ties \in {"all", "any"} :
          ArgMin(axis, t, ties)

SpecQuery == InitQuery /\ [][NextQuery]_vars

\* C16: for any matrix, of any default value and any content, the empty
\* matrix included, matrix.T.T equals the matrix: same row labels, same
\* column labels, same values and same default, so that reading any pair of
\* labels, set or unset, gives the same value on both.
C16_TransposeTwiceIsIdentity ==
    (ret # None /\ ret.call = "T.T") =>
        /\ ~IsError(ret.value)
        /\ ret.value.ilabels = lm.ilabels
        /\ ret.value.jlabels = lm.jlabels
        /\ ret.value.Mij = lm.Mij
        /\ ret.value.default = lm.default
        /\ \A i \in QueryLabels, j \in QueryLabels :
               getitem(ret.value, i, j) = getitem(lm, i, j)

\* the values of the row of a row label and of the column of a column label
RowOf(m, l) == { getitem(m, l, j) : j \in Range(m.jlabels) }
ColumnOf(m, l) == { getitem(m, i, l) : i \in Range(m.ilabels) }

\* the column labels holding v in the row of l, the row labels holding v in
\* the column of l, the pairs holding v
InRow(m, l, v) == { j \in Range(m.jlabels) : getitem(m, l, j) = v }
InColumn(m, l, v) == { i \in Range(m.ilabels) : getitem(m, i, l) = v }
InMatrix(m, v) ==
    { p \in Range(m.ilabels) \X Range(m.jlabels) : getitem(m, p[1], p[2]) = v }

\* the returned set is the set of the labels at the extremum, or with
\* ties='any' and several of them, some of them
Attains(returned, tied, ties) ==
    IF ties = "all" THEN returned = tied
    ELSE returned # {} /\ returned \subseteq tied

\* C17: argmax with a threshold returns the empty set for every row (axis 0),
\* every column (axis 1) or the whole matrix (no axis) whose maximum is not
\* strictly above the threshold, a maximum equal to the threshold included,
\* and otherwise the labels (the pairs of labels) holding the maximum.
C17_ThresholdIsStrict ==
    (/\ ret # None /\ ret.call = "argmax"
     /\ ret.threshold # NoThreshold /\ ~IsError(ret.value)) =>
        /\ ret.axis = 0 =>
             /\ DOMAIN ret.value.val = Range(lm.ilabels)
             /\ \A l \in Range(lm.ilabels) :
                  IF Max(RowOf(lm, l)) > ret.threshold
                  THEN Attains(ret.value.val[l],
                               InRow(lm, l, Max(RowOf(lm, l))), ret.ties)
                  ELSE ret.value.val[l] = {}
        /\ ret.axis = 1 =>
             /\ DOMAIN ret.value.val = Range(lm.jlabels)
             /\ \A l \in Range(lm.jlabels) :
                  IF Max(ColumnOf(lm, l)) > ret.threshold
                  THEN Attains(ret.value.val[l],
                               InColumn(lm, l, Max(ColumnOf(lm, l))), ret.ties)
                  ELSE ret.value.val[l] = {}
        /\ ret.axis = NoAxis /\ lm.Mij # None =>
             LET top == Max({ getitem(lm, p[1], p[2]) :
                                p \in Range(lm.ilabels) \X Range(lm.jlabels) })
             IN IF top > ret.threshold
                THEN ret.value.val = InMatrix(lm, top)
                ELSE ret.value.val = {}

\* argmax(axis=1, threshold=1) on [[1, 2], [0, 1]]: column c, of maximum 1,
\* gets the empty set and column d, of maximum 2, gets row a
C17_Witness ==
    /\ ret # None /\ ret.call = "argmax" /\ ret.axis = 1 /\ ret.threshold = 1
    /\ lm.ilabels = <<"a", "b">> /\ lm.jlabels = <<"c", "d">>
    /\ getitem(lm, "a", "c") = 1 /\ getitem(lm, "b", "c") = 0
    /\ getitem(lm, "a", "d") = 2 /\ getitem(lm, "b", "d") = 1
    /\ ~IsError(ret.value)
    /\ ret.value.val["c"] = {}
    /\ ret.value.val["d"] = {"a"}

Min(S) == CHOOSE v \in S : \A w \in S : v <= w

\* the values of the row (axis 0) or the column (axis 1) of a label, and the
\* labels holding v in it
LineOf(m, axis, l) == IF axis = 0 THEN RowOf(m, l) ELSE ColumnOf(m, l)
InLine(m, axis, l, v) == IF axis = 0 THEN InRow(m, l, v) ELSE InColumn(m, l, v)

\* the extremum a query looks for in a set of values, and whether the
\* threshold of the query excludes it
Extremum(call, S) == IF call = "argmax" THEN Max(S) ELSE Min(S)
Excluded(call, threshold, v) ==
    /\ threshold # NoThreshold
    /\ IF call = "argmax" THEN v <= threshold ELSE v >= threshold

\* C18: for argmax and argmin over axis 0 and over axis 1, ties='all' returns
\* for each label every label tied at the extremum, and ties='any' returns
\* for each label a set of exactly one of the tied labels; the set is empty
\* only when the threshold excludes the label.
C18_TiesAllOrAny ==
    (/\ ret # None /\ ret.call \in {"argmax", "argmin"}
     /\ ret.axis \in {0, 1} /\ ~IsError(ret.value)) =>
        \A l \in DOMAIN ret.value.val :
            LET v == Extremum(ret.call, LineOf(lm, ret.axis, l))
                tied == InLine(lm, ret.axis, l, v)
            IN IF Excluded(ret.call, ret.threshold, v)
               THEN ret.value.val[l] = {}
               ELSE IF ret.ties = "all"
                    THEN ret.value.val[l] = tied
                    ELSE /\ Cardinality(ret.value.val[l]) = 1
                         /\ ret.value.val[l] \subseteq tied

\* the query raised nothing, whatever it chose
Accepts(results) == \A r \in results : ~IsError(r)

\* the threshold of the same query on the negated matrix
NegatedThreshold(threshold) ==
    IF threshold = NoThreshold THEN NoThreshold ELSE 0 - threshold

\* C19: argmin over axis 0 returns for each row label the column labels
\* holding the minimum of the row, which is what argmax returns on the
\* negated matrix; so it does for every call argmax accepts, the call without
\* threshold included, and the matrix is left as it was.
C19_ArgminIsArgmaxOfNegated ==
    [][(/\ ret = None /\ ret' # None
        /\ ret'.call = "argmin" /\ ret'.axis = 0
        /\ Accepts(argmax(lm, 0, ret'.threshold, ret'.ties))) =>
          /\ ~IsError(ret'.value)
          /\ \A l \in Range(lm.ilabels) :
               LET v == Min(RowOf(lm, l))
               IN IF Excluded("argmin", ret'.threshold, v)
                  THEN ret'.value.val[l] = {}
                  ELSE Attains(ret'.value.val[l], InRow(lm, l, v), ret'.ties)
          /\ ~IsError(neg(lm))
          /\ ret'.value \in argmax(neg(lm), 0, NegatedThreshold(ret'.threshold),
                                   ret'.ties)
          /\ lm' = lm]_vars

-----------------------------------------------------------------------------
(* Stopping criterion mixins (src/pyannote/algorithm/clustering/stop.py).    *)
(* Keyword arguments are a function from the names given to their values; a  *)
(* Python function is a record saying what it computes.                      *)

\* largest absolute value of a similarity, of a status and of a threshold
MaxSim == 1

\* lambda x: x < threshold
LessThan(value, threshold) == value < threshold

\* lambda x: False, lambda x: x < threshold, and a function of the caller's
Never == [class |-> "function", kind |-> "never", threshold |-> 0]
Less(threshold) == [class |-> "function", kind |-> "less", threshold |-> threshold]
AtLeast(threshold) ==
    [class |-> "function", kind |-> "atleast", threshold |-> threshold]

\* func(x)
Apply(func, value) ==
    CASE func.kind = "never" -> FALSE
      [] func.kind = "less" -> LessThan(value, func.threshold)
      [] func.kind = "atleast" -> value >= func.threshold

\* FuncSMx.smx_setup(func=None, **kwargs): the function stored in smx_func
FuncSMx_setup(kwargs) ==
    LET func == IF "func" \in DOMAIN kwargs THEN kwargs["func"] ELSE None
    IN IF func = None THEN Never ELSE func

\* LessThanSMx.smx_setup(threshold=0., **kwargs)
LessThanSMx_setup(kwargs) ==
    LET threshold == IF "threshold" \in DOMAIN kwargs THEN kwargs["threshold"] ELSE 0
    IN FuncSMx_setup([k \in {"func"} |-> Less(threshold)])

NegativeSMx_setup_Mutant(kwargs) == LessThanSMx_setup(kwargs)

\* NegativeSMx.smx_setup(**kwargs)
NegativeSMx_setup(kwargs) == LessThanSMx_setup(<<>>)

\* smx_setup of the class
smx_setup(class, kwargs) ==
    CASE class = "FuncSMx" -> FuncSMx_setup(kwargs)
      [] class = "LessThanSMx" -> LessThanSMx_setup(kwargs)
      [] class = "NegativeSMx" -> NegativeSMx_setup(kwargs)

\* the statuses and thresholds handed to a criterion
Statuses == (0 - MaxSim)..MaxSim

\* the keyword arguments handed to smx_setup: any of func and threshold
SetupKwargs ==
    { [k \in {} |-> 0] }
    \cup { [k \in {"threshold"} |-> t] : t \in Statuses }
    \cup { [k \in {"func"} |-> f] : f \in {None, AtLeast(0)} }
    \cup { [k \in {"func", "threshold"} |-> IF k = "func" THEN f ELSE t] :
             f \in {None, AtLeast(0)}, t \in Statuses }

\* instance.smx_setup(**kwargs)
SmxSetup(class, kwargs) ==
    /\ smx = Absent
    /\ smx' = [class |-> class, kwargs |-> kwargs,
               smx_func |-> smx_setup(class, kwargs), asked |-> 0,
               status |-> 0, stop |-> FALSE]
    /\ UNCHANGED <<ilpVars, matrixVars, aggVars, cmx, mmx, backend, fs, tl>>

\* instance.smx_stop(status)
SmxStop(value) ==
    /\ smx # Absent
    /\ smx.asked = 0
    /\ smx' = [smx EXCEPT !.asked = 1, !.status = value,
                          !.stop = Apply(smx.smx_func, value)]
    /\ UNCHANGED <<ilpVars, matrixVars, aggVars, cmx, mmx, backend, fs, tl>>

InitStop == IlpIdle /\ MatrixIdle /\ AggIdle /\ RestIdle

NextStop ==
    \/ \E class \in {"FuncSMx", "LessThanSMx", "NegativeSMx"}, kwargs \in SetupKwargs :
          SmxSetup(class, kwargs)
    \/ \E value \in Statuses : SmxStop(value)

SpecStop == InitStop /\ [][NextStop]_vars

\* C26: the default criterion, NegativeSMx, tells to stop exactly when the
\* status is strictly less than zero, whatever keyword arguments its setup
\* was given: a status of 0 and a positive status do not stop; a FuncSMx set
\* up without a function never tells to stop.
C26_NegativeStopsBelowZero ==
    (smx # Absent /\ smx.asked = 1) =>
        /\ smx.class = "NegativeSMx" => (smx.stop <=> smx.status < 0)
        /\ (/\ smx.class = "FuncSMx"
            /\ ("func" \notin DOMAIN smx.kwargs \/ smx.kwargs["func"] = None))
              => ~smx.stop

\* NegativeSMx set up with threshold=1 and asked about a status of 0
C26_Witness ==
    /\ smx # Absent /\ smx.asked = 1
    /\ smx.class = "NegativeSMx"
    /\ DOMAIN smx.kwargs = {"threshold"} /\ smx.kwargs["threshold"] = 1
    /\ smx.status = 0
    /\ ~smx.stop

-----------------------------------------------------------------------------
(* BaseModelMixin.mmx_similarity_matrix                                      *)
(* (src/pyannote/algorithm/clustering/model/base.py).  mmx_fit, mmx_compare  *)
(* and mmx_symmetric are those of a subclass: compare gives the value of     *)
(* mmx_compare for each pair of labels.                                      *)

ModelLabels == {"a", "b", "c"}
CompareValues == {0, 1}

\* a cell of np.empty no value was written to
Unset == -1

\* the lists of distinct labels
LabelListsOf(labels) ==
    { l \in UNION { [1..n -> labels] : n \in 0..Cardinality(labels) } : Unique(l) }

InnerLoop_Mutant(N, i, symmetric) ==
    SelectSeq([k \in 1..N |-> k - 1],
              LAMBDA j : \A h \in 0..j : ~(symmetric /\ h >= i))

\* the indices j the inner loop reaches in row i before its break
InnerLoop(N, i, symmetric) ==
    SelectSeq([k \in 1..N |-> k - 1],
              LAMBDA j : \A h \in 0..j : ~(symmetric /\ h > i))

\* the pairs <<i, j>> compared, in the order of the two loops
RECURSIVE Compared(_, _, _)
Compared(N, i, symmetric) ==
    IF i >= N THEN <<>>
    ELSE [k \in 1..Len(InnerLoop(N, i, symmetric)) |->
             <<i, InnerLoop(N, i, symmetric)[k]>>]
         \o Compared(N, i + 1, symmetric)

\* X after the assignments of the pairs from the k-th on
RECURSIVE Assigned(_, _, _, _, _, _)
Assigned(X, pairs, k, labels, symmetric, compare) ==
    IF k > Len(pairs) THEN X
    ELSE LET i == pairs[k][1]
             j == pairs[k][2]
             v == compare[<<labels[i + 1], labels[j + 1]>>]
             X1 == [X EXCEPT !.val[<<i, j>>] = v]
             X2 == IF symmetric THEN [X1 EXCEPT !.val[<<j, i>>] = v] ELSE X1
         IN Assigned(X2, pairs, k + 1, labels, symmetric, compare)

\* mmx_similarity_matrix(labels): the array returned and the calls made to
\* mmx_fit and mmx_compare, in order
mmx_similarity_matrix(labels, symmetric, compare) ==
    LET N == Len(labels)
        pairs == Compared(N, 0, symmetric)
    IN [X |-> Assigned(ones(N, N, Unset), pairs, 1, labels, symmetric, compare),
        log |-> [k \in 1..N |-> <<"fit", labels[k], labels[k]>>]
                \o [k \in 1..Len(pairs) |->
                      <<"compare", labels[pairs[k][1] + 1], labels[pairs[k][2] + 1]>>]]

\* the values of mmx_compare of a subclass: any, or symmetric ones when the
\* subclass says mmx_symmetric() is True
Compares(labels, symmetric) ==
    { c \in [Range(labels) \X Range(labels) -> CompareValues] :
        symmetric => \A a \in Range(labels), b \in Range(labels) :
                        c[<<a, b>>] = c[<<b, a>>] }

\* instance.mmx_similarity_matrix(labels)
SimilarityMatrix(labels, symmetric, compare) ==
    /\ mmx = Absent
    /\ mmx' = [class |-> "BaseModelMixin", labels |-> labels,
               symmetric |-> symmetric, compare |-> compare,
               returned |-> mmx_similarity_matrix(labels, symmetric, compare)]
    /\ UNCHANGED <<ilpVars, matrixVars, aggVars, smx, cmx, backend, fs, tl>>

InitModel == IlpIdle /\ MatrixIdle /\ AggIdle /\ RestIdle

NextModel ==
    \E labels \in LabelListsOf(ModelLabels), symmetric \in BOOLEAN :
        \E compare \in Compares(labels, symmetric) :
            SimilarityMatrix(labels, symmetric, compare)

SpecModel == InitModel /\ [][NextModel]_vars

\* the positions of the log holding a call of the kind
CallsOf(log, kind) == { k \in 1..Len(log) : log[k][1] = kind }

\* C25: mmx_similarity_matrix(labels) fits exactly one model per label,
\* before the first comparison, and returns an N x N array whose every cell
\* [i, j] is compare(labels[i], labels[j]), none left unset; when the
\* similarity is symmetric only the pairs with j <= i are compared,
\* N(N+1)/2 comparisons, and X[i, j] = X[j, i] for all i and j.
C25_SimilarityMatrixFilled ==
    mmx # Absent =>
        LET N == Len(mmx.labels)
            X == mmx.returned.X
            log == mmx.returned.log
        IN /\ \A l \in Range(mmx.labels) :
                 Cardinality({ k \in CallsOf(log, "fit") : log[k][2] = l }) = 1
           /\ Cardinality(CallsOf(log, "fit")) = N
           /\ \A f \in CallsOf(log, "fit"), c \in CallsOf(log, "compare") : f < c
           /\ X.ni = N /\ X.nj = N
           /\ \A i \in 0..(N - 1), j \in 0..(N - 1) :
                 /\ X.val[<<i, j>>] # Unset
                 /\ X.val[<<i, j>>] =
                       mmx.compare[<<mmx.labels[i + 1], mmx.labels[j + 1]>>]
           /\ mmx.symmetric =>
                 /\ 2 * Cardinality(CallsOf(log, "compare")) = N * (N + 1)
                 /\ { <<log[k][2], log[k][3]>> : k \in CallsOf(log, "compare") }
                       = { <<mmx.labels[p[1] + 1], mmx.labels[p[2] + 1]>> :
                             p \in { q \in Cells(N, N) : q[2] <= q[1] } }
                 /\ \A i \in 0..(N - 1), j \in 0..(N - 1) :
                       X.val[<<i, j>>] = X.val[<<j, i>>]
           /\ ~mmx.symmetric => Cardinality(CallsOf(log, "compare")) = N * N

\* a symmetric similarity over three labels, with values that differ
C25_Witness ==
    /\ mmx # Absent
    /\ mmx.symmetric
    /\ mmx.labels = <<"b", "a", "c">>
    /\ Cardinality(CallsOf(mmx.returned.log, "compare")) = 6
    /\ mmx.returned.X.val[<<0, 2>>] = 1
    /\ mmx.returned.X.val[<<2, 0>>] = 1
    /\ mmx.returned.X.val[<<0, 1>>] = 0

-----------------------------------------------------------------------------
(* IncreaseModularityConstraintMixin                                         *)
(* (src/pyannote/algorithm/clustering/constraint.py).  The engine's          *)
(* similarity gives a value for each ordered pair of its labels; a label a   *)
(* merge creates is one of the merged labels or a new name.                  *)

Items == {"a", "b", "c"}
FreshLabels == <<"n1", "n2">>

\* -np.inf
NegInf == -1000

\* what a similarity matrix holds for a label and itself: -np.inf, the
\* default 0. of a LabelMatrix, or the value 1 of a comparison
DiagonalValues == {NegInf, 0, 1}

\* the similarity matrices of an engine: the same value both ways for a pair
\* of distinct labels, one value on the diagonal, some positive weight
EngineSimilarities ==
    { sim \in [Items \X Items -> {NegInf} \cup (-1..MaxValue)] :
        /\ \E d \in DiagonalValues : \A i \in Items : sim[<<i, i>>] = d
        /\ \A i \in Items, j \in Items : sim[<<i, j>>] = sim[<<j, i>>]
        /\ \E p \in Items \X Items : sim[p] > 0 }

\* the weight of the edge (i, j) of the graph built from the similarity:
\* np.maximum(0, s), and no edge where s is -np.inf
Weight(sim, i, j) ==
    IF sim[<<i, j>>] = NegInf \/ sim[<<i, j>>] < 0 THEN 0 ELSE sim[<<i, j>>]

RECURSIVE SumOver(_, _)
SumOver(S, f) ==
    IF S = {} THEN 0
    ELSE CHOOSE sum \in { f[e] + SumOver(S \ {e}, f)
                          : e \in {CHOOSE e \in S : TRUE} } : TRUE

\* Modularity(g, weight='weight')(partition), times the square of the total
\* weight m: the sum over the pairs of nodes of one cluster of
\* m * A[i, j] - kout[i] * kin[j]
modularity(sim, partition) ==
    CHOOSE q \in
        { SumOver(same, [p \in same |->
                            m * Weight(sim, p[1], p[2]) - kout[p[1]] * kin[p[2]]])
          : m \in {SumOver(Items \X Items,
                           [p \in Items \X Items |-> Weight(sim, p[1], p[2])])},
            kout \in {[i \in Items |->
                         SumOver(Items, [j \in Items |-> Weight(sim, i, j)])]},
            kin \in {[j \in Items |->
                        SumOver(Items, [i \in Items |-> Weight(sim, i, j)])]},
            same \in {{ p \in Items \X Items :
                          partition[p[1]] = partition[p[2]] }} } : TRUE

\* IncreaseModularityConstraintMixin._setup_constraint(**kwargs): pass
setup_constraint(c) == [c EXCEPT !.phase = "setup"]

\* IncreaseModularityConstraintMixin._initialize_constraint: reading
\* self.similarity of an engine that has none raises AttributeError
initialize_constraint(c) ==
    IF ~c.hasSimilarity
    THEN [c EXCEPT !.phase = "failed", !.error = Error("AttributeError")]
    ELSE LET partition == [i \in Items |-> i]
         IN [c EXCEPT !.phase = "initialized",
                      !.partition = partition,
                      !.q = <<modularity(c.similarity, partition)>>]

\* partition with partition[label] = value for each label of the sequence
RECURSIVE AssignAll(_, _, _, _)
AssignAll(partition, labels, k, value) ==
    IF k > Len(labels) THEN partition
    ELSE AssignAll(WithKey(partition, labels[k], value), labels, k + 1, value)

\* IncreaseModularityConstraintMixin._update_constraint(new_label, merged_labels)
modularity_update_constraint(c, new_label, merged_labels) ==
    LET partition == AssignAll(c.partition, merged_labels, 1, new_label)
    IN [c EXCEPT !.partition = partition,
                 !.q = Append(c.q, modularity(c.similarity, partition))]

\* IncreaseModularityConstraintMixin._meet_constraint(labels)
modularity_meet_constraint(c, labels) ==
    LET partition == AssignAll(c.partition, labels, 1, labels[1])
    IN modularity(c.similarity, partition) > c.q[Len(c.q)]

\* the constraint mixin of an engine, before its setup
NewModularityConstraint(hasSimilarity, sim) ==
    [class |-> "IncreaseModularityConstraintMixin", phase |-> "new",
     hasSimilarity |-> hasSimilarity, similarity |-> sim,
     partition |-> <<>>, q |-> <<>>, error |-> None,
     live |-> [i \in Items |-> {i}], merges |-> 0,
     asked |-> <<>>, answer |-> FALSE]

\* an engine with the mixin is constructed
ModularityNew(hasSimilarity, sim) ==
    /\ cmx = Absent
    /\ cmx' = NewModularityConstraint(hasSimilarity, sim)
    /\ UNCHANGED <<ilpVars, matrixVars, aggVars, smx, mmx, backend, fs, tl>>

ModularitySetup ==
    /\ cmx # Absent /\ cmx.class = "IncreaseModularityConstraintMixin"
    /\ cmx.phase = "new"
    /\ cmx' = setup_constraint(cmx)
    /\ UNCHANGED <<ilpVars, matrixVars, aggVars, smx, mmx, backend, fs, tl>>

ModularityInitialize ==
    /\ cmx # Absent /\ cmx.class = "IncreaseModularityConstraintMixin"
    /\ cmx.phase = "setup"
    /\ cmx' = initialize_constraint(cmx)
    /\ UNCHANGED <<ilpVars, matrixVars, aggVars, smx, mmx, backend, fs, tl>>

\* the engine merged the two live labels of merged_labels into new_label and
\* tells the policy
ModularityUpdate(new_label, merged_labels) ==
    /\ cmx # Absent /\ cmx.class = "IncreaseModularityConstraintMixin"
    /\ cmx.phase = "initialized"
    /\ Len(merged_labels) = 2 /\ merged_labels[1] # merged_labels[2]
    /\ Range(merged_labels) \subseteq DOMAIN cmx.live
    /\ new_label \in Range(merged_labels) \cup {FreshLabels[cmx.merges + 1]}
    /\ cmx' = [modularity_update_constraint(cmx, new_label, merged_labels) EXCEPT
                 !.live = [l \in (DOMAIN cmx.live \ Range(merged_labels)) \cup {new_label}
                             |-> IF l = new_label
                                 THEN cmx.live[merged_labels[1]] \cup cmx.live[merged_labels[2]]
                                 ELSE cmx.live[l]],
                 !.merges = cmx.merges + 1,
                 !.asked = <<>>]
    /\ UNCHANGED <<ilpVars, matrixVars, aggVars, smx, mmx, backend, fs, tl>>

\* the engine asks whether the two live labels may be merged
ModularityMeet(labels) ==
    /\ cmx # Absent /\ cmx.class = "IncreaseModularityConstraintMixin"
    /\ cmx.phase = "initialized"
    /\ cmx.asked = <<>>
    /\ Len(labels) = 2 /\ labels[1] # labels[2]
    /\ Range(labels) \subseteq DOMAIN cmx.live
    /\ cmx' = [cmx EXCEPT !.asked = labels,
                          !.answer = modularity_meet_constraint(cmx, labels)]
    /\ UNCHANGED <<ilpVars, matrixVars, aggVars, smx, mmx, backend, fs, tl>>

AllLabels == Items \cup Range(FreshLabels)

InitModularity == IlpIdle /\ MatrixIdle /\ AggIdle /\ RestIdle

NextModularity ==
    \/ \E hasSimilarity \in BOOLEAN, sim \in EngineSimilarities :
          ModularityNew(hasSimilarity, sim)
    \/ ModularitySetup
    \/ ModularityInitialize
    \/ \E new_label \in AllLabels, merged_labels \in AllLabels \X AllLabels :
          ModularityUpdate(new_label, merged_labels)
    \/ \E labels \in AllLabels \X AllLabels : ModularityMeet(labels)

SpecModularity == InitModularity /\ [][NextModularity]_vars

Modular == cmx # Absent /\ cmx.class = "IncreaseModularityConstraintMixin"

\* the cluster the tracked partition gives to a label
ClusterOf(partition, label) ==
    IF label \in DOMAIN partition THEN partition[label] ELSE label

\* the tracked partition with the clusters of the two labels made one
United(partition, labels) ==
    [i \in Items |->
        IF partition[i] \in { ClusterOf(partition, labels[1]),
                              ClusterOf(partition, labels[2]) }
        THEN ClusterOf(partition, labels[1])
        ELSE partition[i]]

\* C23: the modularity policy allows merging a pair of labels exactly when
\* the modularity of the tracked partition, with the clusters of the two
\* labels put into one cluster, is strictly greater than the last value of
\* the policy's history; equal modularity is not allowed.
C23_AllowsIffModularityIncreases ==
    (Modular /\ cmx.phase = "initialized" /\ cmx.asked # <<>>) =>
        (cmx.answer <=>
            modularity(cmx.similarity, United(cmx.partition, cmx.asked))
                > cmx.q[Len(cmx.q)])

\* C24: with an engine that exposes no similarity, the setup step of the
\* modularity policy raises a configuration error: the policy is never set
\* up without error, never initialized, and no merge is attempted.
C24_SetupFailsWithoutSimilarity ==
    (Modular /\ ~cmx.hasSimilarity /\ cmx.phase # "new") =>
        /\ IsError(cmx.error)
        /\ cmx.phase \notin {"setup", "initialized"}
        /\ cmx.merges = 0

\* C27: after any sequence of merges told to the modularity policy, two
\* original items have the same cluster in the tracked partition exactly
\* when they were merged into the same live label, and the history holds
\* one value per merge plus the initial one, earlier values never changing.
C27_PartitionTracksMerges ==
    /\ [](Modular /\ cmx.phase = "initialized" =>
            /\ \A i \in Items, j \in Items :
                 (cmx.partition[i] = cmx.partition[j])
                    <=> \E l \in DOMAIN cmx.live : i \in cmx.live[l] /\ j \in cmx.live[l]
            /\ Len(cmx.q) = cmx.merges + 1)
    /\ [][Modular /\ cmx.phase = "initialized" =>
            SubSeq(cmx'.q, 1, Len(cmx.q)) = cmx.q]_vars

-----------------------------------------------------------------------------
(* ContiguousConstraintMixin                                                 *)
(* (src/pyannote/algorithm/clustering/constraint.py).  Times are counted in  *)
(* units of 0.05 s, so that half a tolerance is a whole number: the segment  *)
(* [0, 1] is <<0, 20>> and the tolerance 0.5 is 10.  The engine's           *)
(* annotation gives each label the segments it covers.                       *)

ContiguousLabels == {"A", "B", "C"}
FreshContiguousLabel == "N"
LabelSegments == { <<0, 20>>, <<28, 40>>, <<50, 60>> }
Tolerances == {0, 10}

\* the annotations of an engine: each label covers one or two segments
Annotations ==
    [ContiguousLabels -> { S \in SUBSET LabelSegments : S # {} /\ Cardinality(S) <= 2 }]

\* .5*self.tolerance << segment >> .5*self.tolerance
xsegment(tolerance, segment) ==
    <<segment[1] - tolerance \div 2, segment[2] + tolerance \div 2>>

\* self.annotation.label_coverage(label)
label_coverage(ann, label) == ann[label]

\* cov.copy(segment_func=self.__xsegment)
xcoverage(tolerance, cov) == { xsegment(tolerance, segment) : segment \in cov }

\* bool(xcov & other_xcov): some segment of one timeline and some segment of
\* the other have a non-empty intersection
Intersects(xcov, other_xcov) ==
    \E s \in xcov, o \in other_xcov :
        (IF s[1] > o[1] THEN s[1] ELSE o[1]) < (IF s[2] < o[2] THEN s[2] ELSE o[2])

\* the parameters of LabelMatrix.__init__
LabelMatrixParameters == {"ilabels", "jlabels", "Mij", "default"}

\* LabelMatrix(**keywords) with a boolean default: a keyword that is no
\* parameter of __init__ raises TypeError; the matrix is the function of the
\* cells stored so far
NewLabelMatrix(keywords) ==
    IF keywords \subseteq LabelMatrixParameters
    THEN [class |-> "LabelMatrix", cells |-> {}]
    ELSE Error("TypeError")

\* ContiguousConstraintMixin._setup_constraint(tolerance=0., **kwargs)
contiguous_setup_constraint(c, tolerance) ==
    [c EXCEPT !.phase = "setup", !.tolerance = tolerance]

\* ContiguousConstraintMixin._initialize_constraint: the cells set to True
contiguous_initialize_constraint(c) ==
    LET m == NewLabelMatrix({"dtype", "default"})
        labels == DOMAIN c.annotation
        xcov(label) == xcoverage(c.tolerance, label_coverage(c.annotation, label))
    IN IF IsError(m)
       THEN [c EXCEPT !.phase = "failed", !.error = m]
       ELSE [c EXCEPT !.phase = "initialized",
                      !.hasContiguous = TRUE,
                      !.contiguous =
                          { p \in labels \X labels :
                              p[1] # p[2] /\ Intersects(xcov(p[1]), xcov(p[2])) }]

\* ContiguousConstraintMixin._update_constraint(new_label, merged_labels),
\* the annotation being that after the merge: without the matrix the
\* first access to self.__contiguous raises AttributeError, with it the first
\* del raises what LabelMatrix.__delitem__ raises
contiguous_update_constraint(c, new_label, merged_labels) ==
    LET labels == DOMAIN c.annotation
        dropped == { l \in Range(merged_labels) : l # new_label }
        xcov(label) == xcoverage(c.tolerance, label_coverage(c.annotation, label))
    IN IF ~c.hasContiguous
       THEN IF dropped # {} \/ labels \ {new_label} # {}
            THEN [c EXCEPT !.error = Error("AttributeError")]
            ELSE c
       ELSE IF dropped # {}
            THEN [c EXCEPT !.error = delitem(c.contiguous, <<merged_labels[1], ":">>)]
            ELSE [c EXCEPT !.contiguous =
                    { p \in c.contiguous : new_label \notin {p[1], p[2]} }
                    \cup { p \in labels \X labels :
                             /\ p[1] # p[2] /\ new_label \in {p[1], p[2]}
                             /\ Intersects(xcov(p[1]), xcov(p[2])) }]

\* ContiguousConstraintMixin._meet_constraint(labels): the answer, or the
\* AttributeError of the first access to a matrix that was never assigned
contiguous_meet_constraint(c, labels) ==
    IF Len(labels) < 2 THEN [answer |-> TRUE, error |-> None]
    ELSE IF ~c.hasContiguous
    THEN [answer |-> FALSE, error |-> Error("AttributeError")]
    ELSE [answer |-> \A l \in 1..Len(labels), k \in 1..Len(labels) :
                        l < k => <<labels[l], labels[k]>> \in c.contiguous,
          error |-> None]

\* the constraint mixin of an engine, before its setup
NewContiguousConstraint(ann) ==
    [class |-> "ContiguousConstraintMixin", phase |-> "new",
     annotation |-> ann, tolerance |-> 0,
     hasContiguous |-> FALSE, contiguous |-> {}, error |-> None,
     merges |-> 0, updated |-> <<>>, asked |-> <<>>, answer |-> FALSE]

Contiguous == cmx # Absent /\ cmx.class = "ContiguousConstraintMixin"

\* an engine with the mixin is constructed on an annotation
ContiguousNew(ann) ==
    /\ cmx = Absent
    /\ cmx' = NewContiguousConstraint(ann)
    /\ UNCHANGED <<ilpVars, matrixVars, aggVars, smx, mmx, backend, fs, tl>>

ContiguousSetup(tolerance) ==
    /\ Contiguous /\ cmx.phase = "new"
    /\ cmx' = contiguous_setup_constraint(cmx, tolerance)
    /\ UNCHANGED <<ilpVars, matrixVars, aggVars, smx, mmx, backend, fs, tl>>

ContiguousInitialize ==
    /\ Contiguous /\ cmx.phase = "setup"
    /\ cmx' = contiguous_initialize_constraint(cmx)
    /\ UNCHANGED <<ilpVars, matrixVars, aggVars, smx, mmx, backend, fs, tl>>

\* the engine asks whether the labels may be merged
ContiguousMeet(labels) ==
    /\ Contiguous /\ cmx.phase \in {"initialized", "failed"}
    /\ cmx.asked = <<>> /\ cmx.merges = 0
    /\ labels[1] # labels[2]
    /\ Range(labels) \subseteq DOMAIN cmx.annotation
    /\ \E r \in {contiguous_meet_constraint(cmx, labels)} :
          cmx' = [cmx EXCEPT !.asked = labels, !.answer = r.answer,
                             !.error = r.error]
    /\ UNCHANGED <<ilpVars, matrixVars, aggVars, smx, mmx, backend, fs, tl>>

\* the engine merged the labels of merged_labels into new_label in its
\* annotation and tells the policy
ContiguousUpdate(new_label, merged_labels) ==
    /\ Contiguous /\ cmx.phase \in {"initialized", "failed"}
    /\ cmx.merges = 0
    /\ merged_labels[1] # merged_labels[2]
    /\ Range(merged_labels) \subseteq DOMAIN cmx.annotation
    /\ new_label \in Range(merged_labels) \cup {FreshContiguousLabel}
    /\ \E ann \in
            {[l \in (DOMAIN cmx.annotation \ Range(merged_labels)) \cup {new_label} |->
                IF l = new_label
                THEN cmx.annotation[merged_labels[1]] \cup cmx.annotation[merged_labels[2]]
                ELSE cmx.annotation[l]]} :
          cmx' = [contiguous_update_constraint(
                      [cmx EXCEPT !.annotation = ann], new_label, merged_labels)
                    EXCEPT !.merges = 1,
                           !.updated = <<new_label>> \o merged_labels,
                           !.asked = <<>>]
    /\ UNCHANGED <<ilpVars, matrixVars, aggVars, smx, mmx, backend, fs, tl>>

InitContiguous == IlpIdle /\ MatrixIdle /\ AggIdle /\ RestIdle

NextContiguous ==
    \/ \E ann \in Annotations : ContiguousNew(ann)
    \/ \E tolerance \in Tolerances : ContiguousSetup(tolerance)
    \/ ContiguousInitialize
    \/ \E labels \in ContiguousLabels \X ContiguousLabels : ContiguousMeet(labels)
    \/ \E new_label \in ContiguousLabels \cup {FreshContiguousLabel},
          merged_labels \in ContiguousLabels \X ContiguousLabels :
          ContiguousUpdate(new_label, merged_labels)

SpecContiguous == InitContiguous /\ [][NextContiguous]_vars

\* the extended coverage of a label of the policy's annotation
XCov(label) == xcoverage(cmx.tolerance, label_coverage(cmx.annotation, label))

\* C21: after setup with a tolerance and initialize, the contiguity policy
\* answers a question about two distinct labels, in either order, and allows
\* the pair exactly when their coverages, each segment extended by half the
\* tolerance on both ends, intersect: [0, 1] and [1.4, 2] are allowed for the
\* tolerance 0.5 and not for the tolerance 0.
C21_AllowsIffExtendedCoveragesIntersect ==
    (Contiguous /\ cmx.phase \in {"initialized", "failed"}
        /\ cmx.merges = 0 /\ cmx.asked # <<>>) =>
        /\ ~IsError(cmx.error)
        /\ cmx.answer <=> Intersects(XCov(cmx.asked[1]), XCov(cmx.asked[2]))
        /\ (cmx.annotation[cmx.asked[1]] = {<<0, 20>>}
              /\ cmx.annotation[cmx.asked[2]] = {<<28, 40>>})
               => (cmx.answer <=> cmx.tolerance = 10)

\* C22: after the contiguity policy was told of a merge, no entry is left
\* for a consumed label, the entries between the new label and each other
\* surviving label, both ways, say whether the merged extended coverage
\* intersects that of the other label, and the entries between the other
\* surviving labels are the ones from before the merge.
C22_UpdateRecomputesNewLabel ==
    /\ [](Contiguous /\ cmx.merges = 1 =>
            /\ ~IsError(cmx.error)
            /\ cmx.hasContiguous
            /\ \A p \in cmx.contiguous : Range(p) \subseteq DOMAIN cmx.annotation
            /\ \A l \in DOMAIN cmx.annotation \ {cmx.updated[1]} :
                 /\ <<cmx.updated[1], l>> \in cmx.contiguous
                       <=> Intersects(XCov(cmx.updated[1]), XCov(l))
                 /\ <<l, cmx.updated[1]>> \in cmx.contiguous
                       <=> Intersects(XCov(cmx.updated[1]), XCov(l)))
    /\ [][Contiguous /\ cmx.merges = 0 /\ cmx'.merges = 1 =>
            \A p \in (DOMAIN cmx'.annotation \ {cmx'.updated[1]})
                        \X (DOMAIN cmx'.annotation \ {cmx'.updated[1]}) :
                p \in cmx'.contiguous <=> p \in cmx.contiguous]_vars

-----------------------------------------------------------------------------
(* The agglomerative clustering engine: READY -> MERGING -> STOPPED.  The    *)
(* loop of the engine (pyannote/algorithm/clustering/agglomerative/base.py,  *)
(* imported by bic.py) is not under src/: its steps follow section 4.3 of    *)
(* the specification, with the stopping criterion of stop.py and the         *)
(* constraint mixins of constraint.py.  BICClustering has no constraint      *)
(* mixin, BICRecombiner has the contiguity mixin, and a third engine has the *)
(* modularity mixin.                                                         *)

Similarities == (0 - MaxSim)..MaxSim

\* the pairs (i, j) of distinct labels
PairsOf(labels) == { p \in labels \X labels : p[1] # p[2] }

\* the similarity matrices of a set of labels: one value for the two orders
\* of a pair of distinct labels
SimilarityMatrices(labels) ==
    { [p \in PairsOf(labels) |-> u[{p[1], p[2]}]]
      : u \in [{ s \in SUBSET labels : Cardinality(s) = 2 } -> Similarities] }

\* self.similarity as the modularity mixin reads it with iter_pairs: every
\* pair of labels, those of a label and itself included
SimilarityOf(sim, diagonal) ==
    [p \in Items \X Items |-> IF p[1] = p[2] THEN diagonal ELSE sim[p]]

\* NegativeSMx.smx_stop(quality), set up without arguments
smx_stop(quality) == Apply(NegativeSMx_setup(<<>>), quality)

\* an engine without constraint mixin: every pair may be merged
NoConstraint == [class |-> "none", error |-> None]

\* the annotation after the merge of merged_labels into new_label
MergedAnnotation(ann, new_label, merged_labels) ==
    [l \in (DOMAIN ann \ Range(merged_labels)) \cup {new_label} |->
        IF l = new_label
        THEN ann[merged_labels[1]] \cup ann[merged_labels[2]]
        ELSE ann[l]]

\* the engine initializes its constraint: _initialize_constraint of the mixin
\* it has, once the similarity matrix is built
InitializePolicy(c, sim, diagonal) ==
    IF c.class = "ContiguousConstraintMixin"
    THEN contiguous_initialize_constraint(c)
    ELSE IF c.class = "IncreaseModularityConstraintMixin"
    THEN initialize_constraint([c EXCEPT !.hasSimilarity = TRUE,
                                         !.similarity =
                                             SimilarityOf(sim, diagonal)])
    ELSE c

\* ConstraintPolicy.allows: _meet_constraint([i, j]) of the mixin the engine
\* has
Allows(c, pair) ==
    IF c.class = "ContiguousConstraintMixin"
    THEN contiguous_meet_constraint(c, pair).answer
    ELSE IF c.class = "IncreaseModularityConstraintMixin"
    THEN modularity_meet_constraint(c, pair)
    ELSE TRUE

\* ConstraintPolicy.onMerge: _update_constraint(new_label, merged_labels) of
\* the mixin the engine has, the annotation being that after the merge
OnMerge(c, new_label, merged_labels) ==
    IF c.class = "ContiguousConstraintMixin"
    THEN contiguous_update_constraint(
             [c EXCEPT !.annotation =
                 MergedAnnotation(c.annotation, new_label, merged_labels)],
             new_label, merged_labels)
    ELSE IF c.class = "IncreaseModularityConstraintMixin"
    THEN modularity_update_constraint(c, new_label, merged_labels)
    ELSE c

\* the allowed pairs of the current matrix
AllowedPairs(a) == { p \in PairsOf(a.labels) : Allows(a.cmx, p) }

NextPairs_Mutant(a) == AllowedPairs(a)

\* step 1 of an iteration: the allowed pairs of extremal (maximum) similarity
NextPairs(a) ==
    UNION { { p \in allowed : \A q \in allowed : a.sim[q] <= a.sim[p] }
            : allowed \in {AllowedPairs(a)} }

\* the fresh identifier of the label a merge creates
NewLabel(a) == FreshLabels[Len(a.history) + 1]

\* the similarity matrix after a merge: the pairs of the new label take the
\* recomputed values, the pairs of surviving labels keep theirs
update_similarity(a, new_label, labels, recomputed) ==
    [p \in PairsOf(labels) |->
        IF p[1] = new_label THEN recomputed[p[2]]
        ELSE IF p[2] = new_label THEN recomputed[p[1]]
        ELSE a.sim[p]]

\* an engine after its construction: the labels of its annotation, its
\* constraint mixin set up, no matrix yet
NewEngine(labels, c) ==
    [state |-> "NEW", labels |-> labels, sim |-> <<>>, cmx |-> c,
     history |-> <<>>, initial |-> Cardinality(labels)]

\* BICClustering on any of the labels, BICRecombiner on an annotation that
\* gives one segment to each label, with a tolerance, and an engine with the
\* modularity mixin
NewEngines ==
    { NewEngine(L, NoConstraint) : L \in SUBSET Items }
    \cup { NewEngine(DOMAIN ann,
                     contiguous_setup_constraint(NewContiguousConstraint(ann),
                                                 tolerance))
           : ann \in [ContiguousLabels -> { {s} : s \in LabelSegments }],
             tolerance \in Tolerances }
    \cup { NewEngine(Items,
                     setup_constraint(
                         NewModularityConstraint(FALSE,
                             [p \in Items \X Items |-> NegInf]))) }

\* the engine builds its similarity matrix and initializes its constraint:
\* it is READY, or the exception of the initialization ends the run; the
\* loop reads the pairs of distinct labels, the modularity mixin the whole
\* matrix, which it is given with some positive weight
Initialize ==
    /\ agg # NoAgg /\ agg.state = "NEW"
    /\ \E sim \in SimilarityMatrices(agg.labels),
          diagonal \in IF agg.cmx.class = "IncreaseModularityConstraintMixin"
                       THEN DiagonalValues ELSE {NegInf} :
         /\ agg.cmx.class = "IncreaseModularityConstraintMixin"
               => \E p \in Items \X Items :
                     Weight(SimilarityOf(sim, diagonal), p[1], p[2]) > 0
         /\ \E c \in {InitializePolicy(agg.cmx, sim, diagonal)} :
              agg' = IF IsError(c.error)
                     THEN [agg EXCEPT !.state = "FAILED", !.cmx = c]
                     ELSE [agg EXCEPT !.state = "READY", !.sim = sim,
                                      !.cmx = c]
    /\ UNCHANGED <<ilpVars, matrixVars, restVars>>

Running == agg # NoAgg /\ agg.state \in {"READY", "MERGING"}

\* step 2 of an iteration: no allowed pair, or the criterion tells to stop
Stop ==
    /\ Running
    /\ \E next \in {NextPairs(agg)} :
         \/ next = {}
         \/ \E p \in next : smx_stop(agg.sim[p])
    /\ agg' = [agg EXCEPT !.state = "STOPPED"]
    /\ UNCHANGED <<ilpVars, matrixVars, restVars>>

Merge_Mutant(pair) ==
    /\ Running
    /\ pair \in NextPairs(agg)
    /\ ~smx_stop(agg.sim[pair])
    /\ Len(agg.history) < Len(FreshLabels)
    /\ agg' = [agg EXCEPT !.state = "MERGING",
                          !.history = Append(agg.history, agg.sim[pair])]
    /\ UNCHANGED <<ilpVars, matrixVars, restVars>>

\* step 3 of an iteration: merge the pair found into a fresh label, recompute
\* the similarities of the new label, tell the constraint, append the quality
\* to the status history; an exception of the constraint ends the run
Merge(pair) ==
    /\ Running
    /\ pair \in NextPairs(agg)
    /\ ~smx_stop(agg.sim[pair])
    /\ \E new_label \in {NewLabel(agg)} :
       \E labels \in {(agg.labels \ Range(pair)) \cup {new_label}} :
       \E recomputed \in [labels \ {new_label} -> Similarities] :
       \E c \in {OnMerge(agg.cmx, new_label, pair)} :
          agg' = [agg EXCEPT
                    !.state = IF IsError(c.error) THEN "FAILED" ELSE "MERGING",
                    !.labels = labels,
                    !.sim = update_similarity(agg, new_label, labels, recomputed),
                    !.cmx = c,
                    !.history = IF IsError(c.error) THEN agg.history
                                ELSE Append(agg.history, agg.sim[pair])]
    /\ UNCHANGED <<ilpVars, matrixVars, restVars>>

InitAgg == IlpIdle /\ MatrixIdle /\ RestIdle /\ agg \in NewEngines

Merges == Running /\ \E pair \in NextPairs(agg) : Merge(pair)

NextAgg == Initialize \/ Stop \/ Merges

SpecAgg == InitAgg /\ [][NextAgg]_vars

\* the loop runs on until it stops
SpecAggFair == SpecAgg /\ WF_vars(Stop) /\ WF_vars(Merges)

\* an iteration that merged: it appended to the status history
MergeIteration == agg # NoAgg /\ Len(agg'.history) > Len(agg.history)

\* C11: every merge iteration removes exactly two live labels and adds
\* exactly one, so that the number of live labels goes down by exactly one,
\* and no other step changes the labels; from READY the engine eventually
\* reaches STOPPED, with no more labels than it started with.
C11_MergesTerminate ==
    /\ [][/\ MergeIteration =>
               /\ Cardinality(agg.labels \ agg'.labels) = 2
               /\ Cardinality(agg'.labels \ agg.labels) = 1
               /\ Cardinality(agg'.labels) = Cardinality(agg.labels) - 1
          /\ agg # NoAgg /\ ~MergeIteration => agg'.labels = agg.labels]_vars
    /\ (agg # NoAgg /\ agg.state = "READY") ~> (agg.state = "STOPPED")
    /\ [](agg # NoAgg /\ agg.state = "STOPPED" =>
              Cardinality(agg.labels) <= agg.initial)

\* an engine without constraint mixin merged its three labels into one by two
\* iterations, and stopped
C11_Witness ==
    /\ agg # NoAgg /\ agg.state = "STOPPED"
    /\ agg.cmx = NoConstraint
    /\ agg.initial = 3
    /\ Cardinality(agg.labels) = 1
    /\ Len(agg.history) = 2

\* the pairs of distinct live labels the constraint allows at this moment
AllowedNow == { p \in PairsOf(agg.labels) : Allows(agg.cmx, p) }

\* C12: an iteration merges only a pair of distinct live labels that the
\* constraint allows at that moment and whose similarity is the largest among
\* the allowed pairs of the current matrix; the engine moves to STOPPED,
\* without merging, exactly when no pair is allowed or the stopping criterion
\* (quality below zero) is true for that largest similarity.
C12_MergesExtremalAllowedPair ==
    [][Running =>
         /\ MergeIteration =>
              \E pair \in AllowedNow :
                 /\ Range(pair) = agg.labels \ agg'.labels
                 /\ \A q \in AllowedNow : agg.sim[q] <= agg.sim[pair]
                 /\ agg'.history = Append(agg.history, agg.sim[pair])
         /\ (agg'.state = "STOPPED" /\ ~MergeIteration)
               <=> (AllowedNow = {} \/ \A q \in AllowedNow : agg.sim[q] < 0)]_vars

\* an engine with the modularity mixin merged a pair of similarity 1 and
\* stopped on the two labels left: their similarity is not negative, and the
\* mixin allows them in neither order
C12_Witness ==
    /\ agg # NoAgg /\ agg.state = "STOPPED"
    /\ agg.cmx.class = "IncreaseModularityConstraintMixin"
    /\ agg.history = <<1>>
    /\ Cardinality(agg.labels) = 2
    /\ AllowedNow = {}
    /\ \A p \in PairsOf(agg.labels) : agg.sim[p] >= 0

-----------------------------------------------------------------------------
(* ILPClustering.solve and the Gurobi model it drives                        *)
(* (src/pyannote/algorithm/mpg/gurobi2.py).  The backend is the sequence of  *)
(* the calls made to it: start values, setParam, optimize, reads of x.       *)

\* the value of a keyword argument the caller left at its default None
NotGiven == -1000

\* the keys of self.x
SolveKeys == { <<"a", "a">>, <<"a", "b">> }

\* the numeric configuration values a caller hands to solve
ConfigValues == {NotGiven, 0, 1}

\* the initial solutions a caller hands to solve: none, or a value per key
InitValues == { <<>> } \cup [SolveKeys -> {0, 1}]

\* the choices of --method
MethodNames == {"primal", "dual", "barrier", "concurrent", "deterministic"}

\* methods = {'primal': 0, 'dual': 1, ...}: method_parser of mpg_clustering.py
method_parser(name) ==
    CASE name = "primal" -> 0
      [] name = "dual" -> 1
      [] name = "barrier" -> 2
      [] name = "concurrent" -> 3
      [] name = "deterministic" -> 4

\* the methods a caller hands to solve: none, or the number of a method
Methods == {NotGiven} \cup { method_parser(name) : name \in MethodNames }

SolveArguments ==
    [init : InitValues, method : Methods, mip_focus : ConfigValues,
     heuristics : ConfigValues, mip_gap : ConfigValues,
     time_limit : ConfigValues, threads : ConfigValues, verbose : BOOLEAN]

\* the orders in which iteritems() can visit the keys of a dict: the order
\* is that of the hash table, which the source does not fix
KeyOrders(d) == Orders(DOMAIN d)

\* if init: for (I, J), variable in init.iteritems(): self.x[I, J].start = variable
SetStarts(init, keys) ==
    IF init = <<>> THEN <<>>
    ELSE [k \in 1..Len(keys) |->
            [call |-> "start", name |-> keys[k], int |-> init[keys[k]],
             flag |-> FALSE]]

\* if value: self.model.setParam(name, value), where None and 0 are false
SetParamTruthy(name, value) ==
    IF value # NotGiven /\ value # 0
    THEN << [call |-> "setParam", name |-> <<name>>, int |-> value, flag |-> FALSE] >>
    ELSE <<>>

\* for key, variable in self.x.iteritems(): solution[key] = variable.x
ReadSolution(keys) ==
    [k \in 1..Len(keys) |->
        [call |-> "x", name |-> keys[k], int |-> 0, flag |-> FALSE]]

\* ILPClustering.solve: the calls it makes to the backend, in order, when
\* init.iteritems() visits the keys of init in the order of starts and
\* self.x.iteritems() those of self.x in the order of reads
solve(a, starts, reads) ==
    SetStarts(a.init, starts)
    \o SetParamTruthy("Method", a.method)
    \o SetParamTruthy("MIPFocus", a.mip_focus)
    \o SetParamTruthy("Heuristics", a.heuristics)
    \o SetParamTruthy("MIPGap", a.mip_gap)
    \o SetParamTruthy("TimeLimit", a.time_limit)
    \o SetParamTruthy("Threads", a.threads)
    \o << [call |-> "setParam", name |-> <<"OutputFlag">>, int |-> 0, flag |-> a.verbose] >>
    \o << [call |-> "optimize", name |-> <<>>, int |-> 0, flag |-> FALSE] >>
    \o ReadSolution(reads)

\* a model with its variables is built
BackendNew ==
    /\ backend = Absent
    /\ backend' = [class |-> "GurobiModel", phase |-> "built",
                   args |-> <<>>, log |-> <<>>]
    /\ UNCHANGED <<ilpVars, matrixVars, aggVars, smx, cmx, mmx, fs, tl>>

\* solve(init, method, mip_focus, heuristics, mip_gap, time_limit, threads,
\* verbose)
SolveWith(a) ==
    /\ backend # Absent /\ backend.phase = "built"
    /\ \E starts \in KeyOrders(a.init), reads \in Orders(SolveKeys) :
          backend' = [backend EXCEPT !.phase = "solved", !.args = a,
                                     !.log = solve(a, starts, reads)]
    /\ UNCHANGED <<ilpVars, matrixVars, aggVars, smx, cmx, mmx, fs, tl>>

InitSolve == IlpIdle /\ MatrixIdle /\ AggIdle /\ RestIdle

NextSolve ==
    \/ BackendNew
    \/ \E a \in SolveArguments : SolveWith(a)

SpecSolve == InitSolve /\ [][NextSolve]_vars

\* the position of optimize in the calls made to the backend
OptimizeAt(log) == CHOOSE k \in 1..Len(log) : log[k].call = "optimize"

\* the parameter was set to the value before optimize
HandedOver(log, name, value) ==
    \E k \in 1..(OptimizeAt(log) - 1) :
        log[k].call = "setParam" /\ log[k].name = <<name>> /\ log[k].int = value

\* C28: solve hands every configuration value the caller gives (init,
\* method, mip_focus, heuristics, mip_gap, time_limit, threads, verbose) to
\* the backend before the optimization, for every legal value, 0 included,
\* and reads the values of x only after optimize returned.
C28_SolveHandsOverConfiguration ==
    (backend # Absent /\ backend.phase = "solved") =>
        LET log == backend.log
            a == backend.args
            o == OptimizeAt(log)
        IN /\ \A key \in DOMAIN a.init :
                \E k \in 1..(o - 1) :
                    log[k].call = "start" /\ log[k].name = key
                        /\ log[k].int = a.init[key]
           /\ a.method # NotGiven => HandedOver(log, "Method", a.method)
           /\ a.mip_focus # NotGiven => HandedOver(log, "MIPFocus", a.mip_focus)
           /\ a.heuristics # NotGiven => HandedOver(log, "Heuristics", a.heuristics)
           /\ a.mip_gap # NotGiven => HandedOver(log, "MIPGap", a.mip_gap)
           /\ a.time_limit # NotGiven => HandedOver(log, "TimeLimit", a.time_limit)
           /\ a.threads # NotGiven => HandedOver(log, "Threads", a.threads)
           /\ \E k \in 1..(o - 1) :
                log[k].call = "setParam" /\ log[k].name = <<"OutputFlag">>
                    /\ log[k].flag = a.verbose
           /\ \A k \in 1..Len(log) : log[k].call = "x" => k > o
           /\ \A key \in SolveKeys :
                \E k \in (o + 1)..Len(log) : log[k].call = "x" /\ log[k].name = key

-----------------------------------------------------------------------------
(* The output file of the command line tools (src/bin/mpg.py and             *)
(* src/bin/mpg_clustering.py).  A path holds no file, a file with old        *)
(* content, a file with old content its owner may write but not read, or     *)
(* the content a tool wrote, in a file that may or may not be read.          *)

Paths == {"out1", "out2", "out3"}
Missing == "missing"
Old == "old"
OldWriteOnly == "old, write-only"
New == "new"
NewWriteOnly == "new, write-only"

FileSystems == [Paths -> {Missing, Old, OldWriteOnly}]

\* the output paths of a run of mpg.py, one per resource
PathLists == { <<p>> : p \in Paths } \cup { <<p, q>> : p \in Paths, q \in Paths }

\* open(path): the handle, or IOError when there is no file or the file
\* may not be read
open_read(files, path) ==
    IF files[path] \in {Old, New} THEN [class |-> "file"] ELSE Error("IOError")

\* open(path, 'w') and the writes that follow: the file is created or
\* truncated and holds what the tool writes; a file that was there keeps its
\* mode
open_write(files, path) ==
    [files EXCEPT ![path] = IF files[path] \in {OldWriteOnly, NewWriteOnly}
                            THEN NewWriteOnly ELSE New]

\* mpg.py, for one resource: the IOError raised inside the with block when
\* the file could be opened is caught by the except clause of the same try,
\* as is the IOError of open itself; both end in open(path, 'w')
mpg_output(files, path) ==
    LET opened == open_read(files, path)
        raised == IF IsError(opened) THEN opened ELSE Error("IOError")
    IN IF IsError(raised)
       THEN [files |-> open_write(files, path), error |-> None]
       ELSE [files |-> files, error |-> None]

\* for u, uri in enumerate(uris): the output of each resource in turn
RECURSIVE mpg(_, _, _)
mpg(files, paths, k) ==
    IF k > Len(paths) THEN [files |-> files, error |-> None]
    ELSE LET r == mpg_output(files, paths[k])
         IN IF IsError(r.error) THEN r ELSE mpg(r.files, paths, k + 1)

\* output_parser of mpg_clustering.py: IOError when the file could be
\* opened, which parse_args lets through to sys.exit(e); open(path, 'w')
\* when open raised IOError
output_parser(files, path) ==
    IF IsError(open_read(files, path))
    THEN [files |-> open_write(files, path), error |-> None]
    ELSE [files |-> files, error |-> Error("IOError")]

\* the files before any tool ran
FsNew(files) ==
    /\ fs = Absent
    /\ fs' = [class |-> "fs", before |-> files, files |-> files,
              tool |-> "none", outputs |-> <<>>, error |-> None]
    /\ UNCHANGED <<ilpVars, matrixVars, aggVars, smx, cmx, mmx, backend, tl>>

\* a run of mpg.py with these output paths
RunMpg(paths) ==
    /\ fs # Absent /\ fs.tool = "none"
    /\ \E r \in {mpg(fs.files, paths, 1)} :
          fs' = [fs EXCEPT !.files = r.files, !.error = r.error,
                           !.tool = "mpg.py", !.outputs = paths]
    /\ UNCHANGED <<ilpVars, matrixVars, aggVars, smx, cmx, mmx, backend, tl>>

\* a run of mpg_clustering.py with this output path
RunMpgClustering(path) ==
    /\ fs # Absent /\ fs.tool = "none"
    /\ \E r \in {output_parser(fs.files, path)} :
          fs' = [fs EXCEPT !.files = r.files, !.error = r.error,
                           !.tool = "mpg_clustering.py", !.outputs = <<path>>]
    /\ UNCHANGED <<ilpVars, matrixVars, aggVars, smx, cmx, mmx, backend, tl>>

InitCli == IlpIdle /\ MatrixIdle /\ AggIdle /\ RestIdle

NextCli ==
    \/ \E files \in FileSystems : FsNew(files)
    \/ \E paths \in PathLists : RunMpg(paths)
    \/ \E path \in Paths : RunMpgClustering(path)

SpecCli == InitCli /\ [][NextCli]_vars

\* C29: neither command line tool overwrites an existing output file: when
\* an output path of a run exists, the tool reports an error and the file is
\* as it was, and a tool writes only to paths that held no file.
C29_NoOverwrite ==
    (fs # Absent /\ fs.tool # "none") =>
        /\ \A p \in Range(fs.outputs) :
              fs.before[p] # Missing =>
                  IsError(fs.error) /\ fs.files[p] = fs.before[p]
        /\ \A p \in Paths :
              fs.files[p] # fs.before[p] => fs.before[p] = Missing

-----------------------------------------------------------------------------
(* Timeline (src/pyannote/base/timeline.py).  A segment is the pair of its   *)
(* start and end times; positions in a list are counted from 0 as in the     *)
(* source.                                                                   *)

\* latest time of a segment
MaxTime == 3

\* the segments handed to a timeline, the empty ones included
Segments == (0..MaxTime) \X (0..MaxTime)

\* not segment: a segment that ends no later than it starts is empty
IsEmptySegment(segment) == segment[2] <= segment[1]

\* Segment.__lt__: by start time, then by end time
SegmentLess(a, b) == a[1] < b[1] \/ (a[1] = b[1] /\ a[2] < b[2])

\* RevSegment.__lt__: by end time, then by start time
RevSegmentLess(a, b) == a[2] < b[2] \/ (a[2] = b[2] /\ a[1] < b[1])

\* element < other, for two Segment or two RevSegment objects
Before(reversed, element, other) ==
    IF reversed THEN RevSegmentLess(element, other) ELSE SegmentLess(element, other)

\* sorted_list[i]
At(list, i) == list[i + 1]

\* Timeline.__search_helper
RECURSIVE search_helper(_, _, _, _, _)
search_helper_Mutant(reversed, element, sorted_list, left, right) ==
    IF left + 1 >= right THEN left
    ELSE LET mid == (left + right) \div 2
         IN IF Before(reversed, element, At(sorted_list, mid))
            THEN search_helper(reversed, element, sorted_list, left, mid)
            ELSE search_helper(reversed, element, sorted_list, mid, right)

search_helper(reversed, element, sorted_list, left, right) ==
    IF left + 1 >= right THEN right
    ELSE LET mid == (left + right) \div 2
         IN IF Before(reversed, element, At(sorted_list, mid))
            THEN search_helper(reversed, element, sorted_list, left, mid)
            ELSE search_helper(reversed, element, sorted_list, mid, right)

\* Timeline.__search, in a timeline of len_self segments
search(reversed, element, sorted_list, len_self) ==
    IF Len(sorted_list) = 0 THEN 0
    ELSE IF Before(reversed, element, At(sorted_list, 0)) THEN 0
    ELSE IF Before(reversed, At(sorted_list, Len(sorted_list) - 1), element)
    THEN Len(sorted_list)
    ELSE search_helper(reversed, element, sorted_list, 0, len_self)

\* list.insert(index, element)
Inserted(list, index, element) ==
    SubSeq(list, 1, index) \o <<element>> \o SubSeq(list, index + 1, Len(list))

\* del list[index], for an index in range
Deleted(list, index) ==
    SubSeq(list, 1, index) \o SubSeq(list, index + 2, Len(list))

\* Timeline.__iadd__(segment)
iadd(t, other) ==
    IF IsEmptySegment(other) \/ other \in Range(t.segments) THEN t
    ELSE LET index == search(FALSE, other, t.segments, Len(t.segments))
             xedni == search(TRUE, other, t.rsegments, Len(t.segments))
         IN [t EXCEPT !.segments = Inserted(t.segments, index, other),
                      !.rsegments = Inserted(t.rsegments, xedni, other)]

\* Timeline.__iadd__(other) for a list of segments: timeline += segment for
\* each segment of the list in turn
RECURSIVE iadd_each(_, _, _)
iadd_each(t, other, k) ==
    IF k > Len(other) THEN t
    ELSE iadd_each(iadd(t, other[k]), other, k + 1)

\* del timeline[key] for an int: a negative key counts from the end, a key
\* out of range raises IndexError
delitem_int(t, key) ==
    LET n == Len(t.segments)
        k == IF key < 0 THEN key + n ELSE key
    IN IF k < 0 \/ k >= n THEN [t EXCEPT !.error = Error("IndexError")]
       ELSE LET segment == At(t.segments, k)
                yek == search(TRUE, segment, t.rsegments, n) - 1
            IN [t EXCEPT !.segments = Deleted(t.segments, k),
                         !.rsegments = Deleted(t.rsegments, yek)]

\* del timeline[i:j]: each segment of self.__segments[i:j] in turn
RECURSIVE delitem_slice(_, _, _)
delitem_slice(t, segments, k) ==
    IF k > Len(segments) THEN t
    ELSE LET n == Len(t.segments)
             index == search(FALSE, segments[k], t.segments, n) - 1
             xedni == search(TRUE, segments[k], t.rsegments, n) - 1
         IN delitem_slice([t EXCEPT !.segments = Deleted(t.segments, index),
                                    !.rsegments = Deleted(t.rsegments, xedni)],
                          segments, k + 1)

\* Timeline.index(segment): the position, or the error raised
index(t, segment) ==
    LET n == Len(t.segments)
        i == search(FALSE, segment, t.segments, n) - 1
        k == IF i < 0 THEN i + n ELSE i
    IN IF k < 0 \/ k >= n THEN Error("IndexError")
       ELSE IF At(t.segments, k) = segment THEN [class |-> "int", int |-> i]
       ELSE Error("ValueError")

\* del timeline[segment]
delitem_segment(t, key) ==
    LET i == index(t, key)
    IN IF IsError(i) THEN [t EXCEPT !.error = i] ELSE delitem_int(t, i.int)

\* Timeline.clear: del self.__segments[:] and del self.__rsegments[:]
clear(t) == [t EXCEPT !.segments = <<>>, !.rsegments = <<>>]

\* Timeline(): both lists empty
NewTimeline ==
    [class |-> "Timeline", segments |-> <<>>, rsegments |-> <<>>,
     error |-> None, last |-> <<"new">>, before |-> <<>>, rbefore |-> <<>>]

\* a timeline with what it held before the operation and the operation
Done(t, result, op) ==
    [result EXCEPT !.last = op, !.before = t.segments, !.rbefore = t.rsegments]

TimelineNew ==
    /\ tl = Absent
    /\ tl' = NewTimeline
    /\ UNCHANGED <<ilpVars, matrixVars, aggVars, smx, cmx, mmx, backend, fs>>

\* timeline += segment
TimelineAdd(segment) ==
    /\ tl # Absent
    /\ tl' = Done(tl, iadd([tl EXCEPT !.error = None], segment), <<"add", segment>>)
    /\ UNCHANGED <<ilpVars, matrixVars, aggVars, smx, cmx, mmx, backend, fs>>

\* the lists of segments added in one call: none, two new ones out of order,
\* the same one twice, an empty one before a new one
SegmentLists ==
    { <<>>,
      << <<0, 2>>, <<0, 1>> >>,
      << <<1, 2>>, <<1, 2>> >>,
      << <<1, 1>>, <<0, 3>> >> }

\* timeline += segments
TimelineAddList(segments) ==
    /\ tl # Absent
    /\ tl' = Done(tl, iadd_each([tl EXCEPT !.error = None], segments, 1),
                  <<"add list", segments>>)
    /\ UNCHANGED <<ilpVars, matrixVars, aggVars, smx, cmx, mmx, backend, fs>>

\* del timeline[key], key an int
TimelineDelInt(key) ==
    /\ tl # Absent
    /\ key \in (0 - Len(tl.segments) - 1)..Len(tl.segments)
    /\ tl' = Done(tl, delitem_int([tl EXCEPT !.error = None], key), <<"del int", key>>)
    /\ UNCHANGED <<ilpVars, matrixVars, aggVars, smx, cmx, mmx, backend, fs>>

\* del timeline[i:j]
TimelineDelSlice(i, j) ==
    /\ tl # Absent
    /\ i \in 0..Len(tl.segments) /\ j \in 0..Len(tl.segments)
    /\ tl' = Done(tl, delitem_slice([tl EXCEPT !.error = None],
                                    SubSeq(tl.segments, i + 1, j), 1),
                  <<"del slice", i, j>>)
    /\ UNCHANGED <<ilpVars, matrixVars, aggVars, smx, cmx, mmx, backend, fs>>

\* del timeline[segment]
TimelineDelSegment(segment) ==
    /\ tl # Absent
    /\ tl' = Done(tl, delitem_segment([tl EXCEPT !.error = None], segment),
                  <<"del segment", segment>>)
    /\ UNCHANGED <<ilpVars, matrixVars, aggVars, smx, cmx, mmx, backend, fs>>

\* timeline.clear()
TimelineClear ==
    /\ tl # Absent
    /\ tl' = Done(tl, clear([tl EXCEPT !.error = None]), <<"clear">>)
    /\ UNCHANGED <<ilpVars, matrixVars, aggVars, smx, cmx, mmx, backend, fs>>

\* the most segments a timeline over the given times can hold
MostSegments == Cardinality(Segments)

InitTimeline == IlpIdle /\ MatrixIdle /\ AggIdle /\ RestIdle

NextTimeline ==
    \/ TimelineNew
    \/ \E segment \in Segments : TimelineAdd(segment)
    \/ \E key \in (0 - MostSegments)..MostSegments : TimelineDelInt(key)
    \/ \E i \in 0..MostSegments, j \in 0..MostSegments : TimelineDelSlice(i, j)
    \/ \E segment \in Segments : TimelineDelSegment(segment)
    \/ TimelineClear
    \/ \E segments \in SegmentLists : TimelineAddList(segments)

SpecTimeline == InitTimeline /\ [][NextTimeline]_vars

\* the list is sorted without duplicates in the order of Segment or RevSegment
StrictlySorted(reversed, list) ==
    \A k \in 1..(Len(list) - 1) : Before(reversed, list[k], list[k + 1])

\* C30: after any sequence of additions of a segment and deletions by
\* index, slice or segment, the forward list of a Timeline is sorted without
\* duplicates, its reverse list is sorted in the order of reversed segments,
\* both hold the same segments, and the addition of an empty segment or of a
\* segment already present changes neither list.
C30_TimelineListsSorted ==
    tl # Absent =>
        /\ StrictlySorted(FALSE, tl.segments)
        /\ StrictlySorted(TRUE, tl.rsegments)
        /\ Range(tl.segments) = Range(tl.rsegments)
        /\ Len(tl.segments) = Len(tl.rsegments)
        /\ (tl.last[1] = "add"
              /\ (IsEmptySegment(tl.last[2]) \/ tl.last[2] \in Range(tl.before)))
             => (tl.segments = tl.before /\ tl.rsegments = tl.rbefore)

\* a slice was deleted out of a timeline of four segments whose reverse list
\* is in another order than its forward list
C30_Witness ==
    /\ tl # Absent
    /\ tl.last = <<"del slice", 1, 3>>
    /\ tl.before = << <<0, 3>>, <<1, 2>>, <<1, 3>>, <<2, 3>> >>
    /\ tl.rbefore = << <<1, 2>>, <<0, 3>>, <<1, 3>>, <<2, 3>> >>
    /\ tl.segments = << <<0, 3>>, <<2, 3>> >>
    /\ tl.rsegments = << <<0, 3>>, <<2, 3>> >>

====
